---- MODULE Spec2Model ----
(***************************************************************************)
(* Vehicle-registration administration system: the party update handlers   *)
(* of OwnerController (admin side) and the Owner address registry they     *)
(* maintain over the NaturalPerson, LegalEntity and RegistrationDoc tables,*)
(* and the generic controllers: EmployeeCrudController and                 *)
(* TransportVehicleController in both of their definitions, and the list   *)
(* and lookup handlers of OwnerController.                                 *)
(***************************************************************************)
EXTENDS Integers, FiniteSets, Sequences, TLC

\* ------------------------------------------------------------------ bounds
NumAddr == 3
NumDocs == 2

AddressPool == <<"A", "B", "C", "D", "E">>
Addresses  == {AddressPool[i] : i \in 1..NumAddr}
NoAddress  == ""
RegNumbers == 1..NumDocs
Names      == {"n1", "n2"}
InitialName == "n1"

\* keys: passports are "XXXX XXXXXX", tax numbers are 10 digits
Passports         == {"1234 567890"}
MalformedPassport == "1234"
PassportInputs    == Passports \cup {MalformedPassport}
TaxNumbers        == {"7700000001"}
Parties           == Passports \cup TaxNumbers

\* columns of the party rows (ownerShema); lastName stands for the three
\* name columns lastName, firstName, patronymic, which every handler below
\* carries in the same payload object and writes with the same statement
NaturalPersonFields == {"address", "lastName"}
LegalEntityFields   == {"address", "companyName"}

\* the statement of a handler at which the storage layer throws:
\* 0 = nowhere, k in 1..5 = inside the transaction after k-1 of the
\* handler's four writes (5 = at the counts or at commit), 6 = at the
\* re-read that follows commit
NoFailure       == 0
FailAfterCommit == 6
InTransaction   == (NoFailure + 1)..(FailAfterCommit - 1)

\* two requests in flight at once
Clients == {"c1", "c2"}

VARIABLES Owner, NaturalPerson, LegalEntity, RegistrationDoc, last, req

\* the tables of the employee and vehicle controllers, and the outcome of
\* the last request one of the generic controllers served
VARIABLES Employee, TransportVehicle, reply

\* the tables of the department and work controllers
VARIABLES RegDepartment, Work, RegistrationOp

adminVars == <<RegDepartment, Work, RegistrationOp>>
crudVars == <<Employee, TransportVehicle, reply, adminVars>>
vars == <<Owner, NaturalPerson, LegalEntity, RegistrationDoc, last, req, crudVars>>

\* ------------------------------------------------------------- the tables
DB == [Owner |-> Owner, NaturalPerson |-> NaturalPerson,
       LegalEntity |-> LegalEntity, RegistrationDoc |-> RegistrationDoc]

PartialFunctions(S, T) == UNION {[D -> T] : D \in SUBSET S}

\* number of keys of table t whose row has address a
CountAddress(t, a) == Cardinality({k \in DOMAIN t : t[k].address = a})

\* rows of NaturalPerson, LegalEntity and RegistrationDoc that hold address a
LinkedCount(db, a) ==
    CountAddress(db.NaturalPerson, a) + CountAddress(db.LegalEntity, a)
        + CountAddress(db.RegistrationDoc, a)

\* ------------------------------------------------------ schema validation
\* /^\d{4} \d{6}$/.test(passport)
WellFormedPassport(passport) == passport \in Passports

\* the payload is a function from the supplied fields to their values
ValidPut(updateData, fields) == DOMAIN updateData = fields
ValidPatch(updateData, fields) ==
    DOMAIN updateData # {} /\ DOMAIN updateData \subseteq fields

Payloads(fields) ==
    UNION {{u \in [D -> Addresses \cup Names] :
              \A f \in D : (f = "address") <=> (u[f] \in Addresses)} :
           D \in SUBSET fields}

\* ------------------------------------------------------- ORM statements
\* Model.update(values, {where: key}): the supplied columns are overwritten
SetFields(row, values) ==
    [f \in DOMAIN row |-> IF f \in DOMAIN values THEN values[f] ELSE row[f]]

\* the create without the findOne before it
CreateOwnerUnchecked(db, address) == [db EXCEPT !.Owner[address] = @ + 1]

\* Owner.findOne({address}) then Owner.create({address}) when absent
FindOrCreateOwner(db, address) ==
    IF db.Owner[address] > 0 THEN db
    ELSE [db EXCEPT !.Owner[address] = @ + 1]

\* RegistrationDoc.update({address}, {where: {documentOwner}})
RewriteDocsOfOwner(db, key, address) ==
    [db EXCEPT !.RegistrationDoc =
        [r \in DOMAIN @ |-> IF @[r].documentOwner = key
                            THEN [@[r] EXCEPT !.address = address] ELSE @[r]]]

\* the update with documentOwner dropped from its where clause
RewriteDocsAt(db, key, oldAddress, address) ==
    [db EXCEPT !.RegistrationDoc =
        [r \in DOMAIN @ |->
            IF @[r].address = oldAddress
            THEN [@[r] EXCEPT !.address = address] ELSE @[r]]]

\* RegistrationDoc.update({address}, {where: {address: oldAddress, documentOwner}})
RewriteDocsOfOwnerAt(db, key, oldAddress, address) ==
    [db EXCEPT !.RegistrationDoc =
        [r \in DOMAIN @ |->
            IF @[r].documentOwner = key /\ @[r].address = oldAddress
            THEN [@[r] EXCEPT !.address = address] ELSE @[r]]]

\* RegistrationDoc.findAll({where: {documentOwner}}).length > 0
HasDocsOfOwner(db, key) ==
    \E r \in DOMAIN db.RegistrationDoc : db.RegistrationDoc[r].documentOwner = key

\* RegistrationDoc.findAll({where: {address: oldAddress, documentOwner}}).length > 0
HasDocsOfOwnerAt(db, key, oldAddress) ==
    \E r \in DOMAIN db.RegistrationDoc :
        /\ db.RegistrationDoc[r].documentOwner = key
        /\ db.RegistrationDoc[r].address = oldAddress

\* the destroy decided without the RegistrationDoc count
DestroyOwnerIgnoringDocs(db, oldAddress) ==
    IF CountAddress(db.NaturalPerson, oldAddress)
         + CountAddress(db.LegalEntity, oldAddress) = 0
    THEN [db EXCEPT !.Owner[oldAddress] = 0]
    ELSE db

\* the three counts and Owner.destroy({where: {address: oldAddress}})
DestroyOwnerIfUnlinked(db, oldAddress) ==
    IF LinkedCount(db, oldAddress) = 0
    THEN [db EXCEPT !.Owner[oldAddress] = 0]
    ELSE db

\* a catch block that forwards the error and keeps the writes
KeepWrites(before, work) == work

\* transaction.rollback(): every write of the transaction is undone
Rollback(before, work) == before

\* ------------------------------------------------------------ responses
Reply(db, status, tx, oldAddress, writes) ==
    [db |-> db, status |-> status, tx |-> tx, oldAddress |-> oldAddress,
     writes |-> writes]

\* `return next(ApiError...)` inside the try block: the catch block is not
\* entered, so neither commit nor rollback is called on the transaction
EarlyReturn(db, status) == Reply(db, status, <<>>, NoAddress, 0)

\* the catch block: rollback, then next(ApiError.internal(...))
CatchBlock(before, work, oldAddress, writes) ==
    Reply(Rollback(before, work), "internal", <<"rollback">>, oldAddress, writes)

\* stages[k] is the transaction's view after k-1 writes; without a failure
\* the last view is committed and sent; a failure inside the transaction
\* enters the catch block; a failure of the re-read after commit enters the
\* catch block too, where rollback of the committed transaction throws
Finish(before, stages, fail, oldAddress) ==
    IF fail = NoFailure
    THEN Reply(stages[Len(stages)], "ok", <<"commit">>, oldAddress, Len(stages) - 1)
    ELSE IF fail = FailAfterCommit
    THEN Reply(stages[Len(stages)], "noResponse", <<"commit", "rollback">>,
               oldAddress, Len(stages) - 1)
    ELSE CatchBlock(before, stages[fail], oldAddress, fail - 1)

\* ------------------------------------------------------------- handlers
\* PUT /natural-persons/:passport
updateNaturalPerson(db, passport, updateData, fail) ==
    IF ~WellFormedPassport(passport)
    THEN EarlyReturn(db, "badRequest")
    ELSE IF ~ValidPut(updateData, NaturalPersonFields)
    THEN EarlyReturn(db, "badRequest")
    ELSE IF fail = 1 /\ passport \notin DOMAIN db.NaturalPerson
    THEN CatchBlock(db, db, NoAddress, 0)
    ELSE IF passport \notin DOMAIN db.NaturalPerson
    THEN EarlyReturn(db, "notFound")
    ELSE
      LET oldAddress == db.NaturalPerson[passport].address
          hasDocs    == HasDocsOfOwner(db, passport)
          w1 == FindOrCreateOwner(db, updateData.address)
          w2 == IF hasDocs THEN RewriteDocsOfOwner(w1, passport, updateData.address)
                ELSE w1
          w3 == [w2 EXCEPT !.NaturalPerson[passport] = SetFields(@, updateData)]
          w4 == DestroyOwnerIfUnlinked(w3, oldAddress)
      IN  Finish(db, <<db, w1, w2, w3, w4>>, fail, oldAddress)

\* PATCH /natural-persons/:passport
patchNaturalPerson(db, passport, updateData, fail) ==
    IF ~ValidPatch(updateData, NaturalPersonFields)
    THEN EarlyReturn(db, "badRequest")
    ELSE IF fail = 1 /\ passport \notin DOMAIN db.NaturalPerson
    THEN CatchBlock(db, db, NoAddress, 0)
    ELSE IF passport \notin DOMAIN db.NaturalPerson
    THEN EarlyReturn(db, "notFound")
    ELSE IF "address" \in DOMAIN updateData
    THEN
      LET oldAddress == db.NaturalPerson[passport].address
          w1 == FindOrCreateOwner(db, updateData.address)
          w2 == IF HasDocsOfOwnerAt(w1, passport, oldAddress)
                THEN RewriteDocsOfOwnerAt(w1, passport, oldAddress, updateData.address)
                ELSE w1
          w3 == [w2 EXCEPT !.NaturalPerson[passport] = SetFields(@, updateData)]
          w4 == DestroyOwnerIfUnlinked(w3, oldAddress)
      IN  Finish(db, <<db, w1, w2, w3, w4>>, fail, oldAddress)
    ELSE
      LET w3 == [db EXCEPT !.NaturalPerson[passport] = SetFields(@, updateData)]
      IN  Finish(db, <<db, db, db, w3, w3>>, fail, db.NaturalPerson[passport].address)

\* PUT /legal-entities/:taxNumber
updateLegalEntity(db, taxNumber, updateData, fail) ==
    IF ~ValidPut(updateData, LegalEntityFields)
    THEN EarlyReturn(db, "badRequest")
    ELSE IF fail = 1 /\ taxNumber \notin DOMAIN db.LegalEntity
    THEN CatchBlock(db, db, NoAddress, 0)
    ELSE IF taxNumber \notin DOMAIN db.LegalEntity
    THEN EarlyReturn(db, "notFound")
    ELSE
      LET oldAddress == db.LegalEntity[taxNumber].address
          hasDocs    == HasDocsOfOwnerAt(db, taxNumber, oldAddress)
          w1 == IF hasDocs THEN FindOrCreateOwner(db, updateData.address) ELSE db
          w2 == IF hasDocs
                THEN RewriteDocsOfOwnerAt(w1, taxNumber, oldAddress, updateData.address)
                ELSE w1
          w3 == [w2 EXCEPT !.LegalEntity[taxNumber] = SetFields(@, updateData)]
          w4 == DestroyOwnerIfUnlinked(w3, oldAddress)
      IN  Finish(db, <<db, w1, w2, w3, w4>>, fail, oldAddress)

\* PATCH /legal-entities/:taxNumber
patchLegalEntity(db, taxNumber, updateData, fail) ==
    IF ~ValidPatch(updateData, LegalEntityFields)
    THEN EarlyReturn(db, "badRequest")
    ELSE IF fail = 1 /\ taxNumber \notin DOMAIN db.LegalEntity
    THEN CatchBlock(db, db, NoAddress, 0)
    ELSE IF taxNumber \notin DOMAIN db.LegalEntity
    THEN EarlyReturn(db, "notFound")
    ELSE IF "address" \in DOMAIN updateData
    THEN
      LET oldAddress == db.LegalEntity[taxNumber].address
          hasDocs    == HasDocsOfOwnerAt(db, taxNumber, oldAddress)
          w1 == IF hasDocs THEN FindOrCreateOwner(db, updateData.address) ELSE db
          w2 == IF hasDocs
                THEN RewriteDocsOfOwnerAt(w1, taxNumber, oldAddress, updateData.address)
                ELSE w1
          w3 == [w2 EXCEPT !.LegalEntity[taxNumber] =
                    SetFields(@, [f \in {"address"} |-> updateData.address])]
          w4 == DestroyOwnerIfUnlinked(w3, oldAddress)
      IN  Finish(db, <<db, w1, w2, w3, w4>>, fail, oldAddress)
    ELSE
      LET w3 == [db EXCEPT !.LegalEntity[taxNumber] = SetFields(@, updateData)]
      IN  Finish(db, <<db, db, db, w3, w3>>, fail, db.LegalEntity[taxNumber].address)

\* the four routes
UpdateOps == {"updateNaturalPerson", "patchNaturalPerson",
              "updateLegalEntity", "patchLegalEntity"}

PutOps == {"updateNaturalPerson", "updateLegalEntity"}
NaturalPersonOps == {"updateNaturalPerson", "patchNaturalPerson"}

\* the handler that serves op
Handle(op, db, key, updateData, fail) ==
    CASE op = "updateNaturalPerson" -> updateNaturalPerson(db, key, updateData, fail)
      [] op = "patchNaturalPerson"  -> patchNaturalPerson(db, key, updateData, fail)
      [] op = "updateLegalEntity"   -> updateLegalEntity(db, key, updateData, fail)
      [] op = "patchLegalEntity"    -> patchLegalEntity(db, key, updateData, fail)

KeysOf(op) ==
    IF op \in NaturalPersonOps THEN Passports
    ELSE TaxNumbers
FieldsOf(op) ==
    IF op \in NaturalPersonOps THEN NaturalPersonFields
    ELSE LegalEntityFields

\* ---------------------------------------------------------------- actions
PayloadAddress(updateData) ==
    IF "address" \in DOMAIN updateData THEN updateData.address ELSE NoAddress

\* the request repeats the one before it: same route, key and address, the
\* one before changed the party's address, and the row already holds the
\* payload's values
Repeats(op, key, updateData, result) ==
    /\ result.status = "ok"
    /\ last.status = "ok" /\ last.op = op /\ last.key = key
    /\ last.address # NoAddress /\ last.address # last.oldAddress
    /\ last.address = PayloadAddress(updateData)
    /\ LET row == IF op \in NaturalPersonOps THEN NaturalPerson[key]
                  ELSE LegalEntity[key]
       IN  \A f \in DOMAIN updateData : row[f] = updateData[f]

\* the request's effect on the tables and the record of its outcome
Served(op, key, updateData, result) ==
    /\ Owner' = result.db.Owner
    /\ NaturalPerson' = result.db.NaturalPerson
    /\ LegalEntity' = result.db.LegalEntity
    /\ RegistrationDoc' = result.db.RegistrationDoc
    /\ last' = [op |-> op, key |-> key, status |-> result.status, tx |-> result.tx,
                oldAddress |-> result.oldAddress,
                address |-> PayloadAddress(updateData),
                writes |-> result.writes,
                repeat |-> Repeats(op, key, updateData, result)]

Respond(op, key, updateData, result) ==
    /\ Served(op, key, updateData, result)
    /\ UNCHANGED <<req, crudVars>>

UpdateNaturalPersonWith(failures) ==
    \E passport \in PassportInputs, updateData \in Payloads(NaturalPersonFields),
       fail \in failures :
        Respond("updateNaturalPerson", passport, updateData,
                updateNaturalPerson(DB, passport, updateData, fail))

PatchNaturalPersonWith(failures) ==
    \E passport \in PassportInputs, updateData \in Payloads(NaturalPersonFields),
       fail \in failures :
        Respond("patchNaturalPerson", passport, updateData,
                patchNaturalPerson(DB, passport, updateData, fail))

UpdateLegalEntityWith(failures) ==
    \E taxNumber \in TaxNumbers, updateData \in Payloads(LegalEntityFields),
       fail \in failures :
        Respond("updateLegalEntity", taxNumber, updateData,
                updateLegalEntity(DB, taxNumber, updateData, fail))

PatchLegalEntityWith(failures) ==
    \E taxNumber \in TaxNumbers, updateData \in Payloads(LegalEntityFields),
       fail \in failures :
        Respond("patchLegalEntity", taxNumber, updateData,
                patchLegalEntity(DB, taxNumber, updateData, fail))

\* requests served by a storage layer that answers every statement
UpdateNaturalPerson == UpdateNaturalPersonWith({NoFailure})
PatchNaturalPerson  == PatchNaturalPersonWith({NoFailure})
UpdateLegalEntity   == UpdateLegalEntityWith({NoFailure})
PatchLegalEntity    == PatchLegalEntityWith({NoFailure})

\* requests during which a statement inside the transaction throws
UpdateNaturalPersonStorageError == UpdateNaturalPersonWith(InTransaction)
PatchNaturalPersonStorageError  == PatchNaturalPersonWith(InTransaction)
UpdateLegalEntityStorageError   == UpdateLegalEntityWith(InTransaction)
PatchLegalEntityStorageError    == PatchLegalEntityWith(InTransaction)

\* ------------------------------------------------------------ initial state
NaturalPersonRows ==
    {[f \in NaturalPersonFields |-> IF f = "address" THEN a ELSE InitialName] :
        a \in Addresses}
LegalEntityRows ==
    {[f \in LegalEntityFields |-> IF f = "address" THEN a ELSE InitialName] :
        a \in Addresses}

\* one Owner row per address in use, none for the others
RegistryOf(db) == [a \in Addresses |-> IF LinkedCount(db, a) > 0 THEN 1 ELSE 0]

\* the party tables and the generic controllers' tables when the other side
\* of the application is the one under study
EmptyTable == << >>
NoBody     == << >>
NoQuery    == << >>
NoReply == [op |-> "none", key |-> "", payload |-> << >>, status |-> "none",
            tx |-> << >>, body |-> NoBody, listQuery |-> NoQuery]
AdminIdle ==
    /\ RegDepartment = << >>
    /\ Work = << >>
    /\ RegistrationOp = {}
CrudIdle ==
    /\ Employee = EmptyTable
    /\ TransportVehicle = EmptyTable
    /\ reply = NoReply
    /\ AdminIdle

NoRequest == [op |-> "none", key |-> "", status |-> "none", tx |-> <<>>,
              oldAddress |-> NoAddress, address |-> NoAddress, writes |-> 0,
              repeat |-> FALSE]

\* a client with no request in flight
Idle == [pc |-> "idle", op |-> "none", key |-> "", updateData |-> << >>,
         oldAddress |-> NoAddress, hasDocs |-> FALSE, ownerFound |-> FALSE,
         created |-> FALSE, rewritten |-> {}, wroteParty |-> FALSE,
         linked |-> 0, destroyed |-> 0, status |-> "none"]

\* the tables hold any rows, documents belong to existing parties, and the
\* Owner registry has exactly one row per address in use
Init ==
    /\ NaturalPerson \in PartialFunctions(Passports, NaturalPersonRows)
    /\ LegalEntity \in PartialFunctions(TaxNumbers, LegalEntityRows)
    /\ RegistrationDoc \in PartialFunctions(RegNumbers,
           [address : Addresses,
            documentOwner : DOMAIN NaturalPerson \cup DOMAIN LegalEntity])
    /\ Owner = RegistryOf([NaturalPerson |-> NaturalPerson,
                           LegalEntity |-> LegalEntity,
                           RegistrationDoc |-> RegistrationDoc])
    /\ last = NoRequest
    /\ req = [c \in Clients |-> Idle]
    /\ CrudIdle

Next ==
    \/ UpdateNaturalPerson
    \/ PatchNaturalPerson
    \/ UpdateLegalEntity
    \/ PatchLegalEntity

Spec == Init /\ [][Next]_vars

NextStorageError ==
    \/ UpdateNaturalPersonStorageError
    \/ PatchNaturalPersonStorageError
    \/ UpdateLegalEntityStorageError
    \/ PatchLegalEntityStorageError

SpecStorageError == Init /\ [][NextStorageError]_vars

TypeOK ==
    /\ Owner \in [Addresses -> Nat]
    /\ DOMAIN NaturalPerson \subseteq Passports
    /\ DOMAIN LegalEntity \subseteq TaxNumbers
    /\ DOMAIN RegistrationDoc \subseteq RegNumbers

\* ------------------------------------------------- concurrent requests
\* Two address updates run as two transactions, one statement at a time.
\* Every statement reads the committed rows and the transaction's own
\* writes; a transaction's writes reach the tables at commit; a row written
\* by one transaction cannot be written by the other until the first ends.
Active(c) == req[c].pc \notin {"idle", "done"}
Other(c)  == CHOOSE d \in Clients : d # c
NewAddress(c) == req[c].updateData.address

\* Owner.create: the table accepts a second row with an address it holds
OwnerInsert(count) == count + 1

\* rows of Owner with address a that transaction c sees
OwnerSeenBy(c, a) ==
    LET own == IF req[c].created /\ a = NewAddress(c) THEN OwnerInsert(0) ELSE 0
        del == IF a = req[c].oldAddress THEN req[c].destroyed ELSE 0
    IN  Owner[a] + own - del

DocSeenBy(c, r) ==
    IF r \in req[c].rewritten
    THEN [RegistrationDoc[r] EXCEPT !.address = NewAddress(c)]
    ELSE RegistrationDoc[r]

NaturalPersonSeenBy(c, k) ==
    IF req[c].wroteParty /\ req[c].op \in NaturalPersonOps /\ k = req[c].key
    THEN SetFields(NaturalPerson[k], req[c].updateData)
    ELSE NaturalPerson[k]

\* patchLegalEntity writes {address: updateData.address}, which is the whole
\* payload of the concurrent requests
LegalEntitySeenBy(c, k) ==
    IF req[c].wroteParty /\ req[c].op \notin NaturalPersonOps /\ k = req[c].key
    THEN SetFields(LegalEntity[k], req[c].updateData)
    ELSE LegalEntity[k]

\* the where clause of the handler's findAll and update on RegistrationDoc
DocsMatching(c) ==
    {r \in DOMAIN RegistrationDoc :
        /\ DocSeenBy(c, r).documentOwner = req[c].key
        /\ \/ req[c].op = "updateNaturalPerson"
           \/ DocSeenBy(c, r).address = req[c].oldAddress}

\* the statement that follows the Owner find-or-create
AfterOwner(c) ==
    CASE req[c].op = "updateNaturalPerson" ->
             IF req[c].hasDocs THEN "updateDocs" ELSE "updateParty"
      [] req[c].op = "patchNaturalPerson" -> "findDocs"
      [] OTHER -> "updateDocs"

ConcurrentPayload(op, a) ==
    [f \in (IF op \in PutOps THEN FieldsOf(op) ELSE {"address"}) |->
        IF f = "address" THEN a ELSE InitialName]

\* sequelize.transaction(), validation and the party lookup
Begin(c) ==
    /\ req[c].pc = "idle"
    /\ \E op \in UpdateOps : \E key \in KeysOf(op) : \E a \in Addresses :
         LET table == IF op \in NaturalPersonOps THEN NaturalPerson ELSE LegalEntity
         IN  req' = [req EXCEPT ![c] =
                 IF key \notin DOMAIN table
                 THEN [Idle EXCEPT !.pc = "done", !.op = op, !.key = key,
                                   !.updateData = ConcurrentPayload(op, a),
                                   !.status = "notFound"]
                 ELSE [Idle EXCEPT !.pc = IF op = "patchNaturalPerson"
                                          THEN "findOwner" ELSE "findDocs",
                                   !.op = op, !.key = key,
                                   !.updateData = ConcurrentPayload(op, a),
                                   !.oldAddress = table[key].address]]
    /\ UNCHANGED <<Owner, NaturalPerson, LegalEntity, RegistrationDoc, last, crudVars>>

\* RegistrationDoc.findAll
FindDocs(c) ==
    /\ req[c].pc = "findDocs"
    /\ LET found == DocsMatching(c) # {}
       IN  req' = [req EXCEPT ![c].hasDocs = found,
                              ![c].pc =
                   CASE req[c].op = "updateNaturalPerson" -> "findOwner"
                     [] req[c].op = "patchNaturalPerson" ->
                            IF found THEN "updateDocs" ELSE "updateParty"
                     [] OTHER -> IF found THEN "findOwner" ELSE "updateParty"]
    /\ UNCHANGED <<Owner, NaturalPerson, LegalEntity, RegistrationDoc, last, crudVars>>

\* Owner.findOne({address: updateData.address})
FindOwner(c) ==
    /\ req[c].pc = "findOwner"
    /\ LET found == OwnerSeenBy(c, NewAddress(c)) > 0
       IN  req' = [req EXCEPT ![c].ownerFound = found,
                              ![c].pc = IF found THEN AfterOwner(c) ELSE "createOwner"]
    /\ UNCHANGED <<Owner, NaturalPerson, LegalEntity, RegistrationDoc, last, crudVars>>

\* Owner.create({address: updateData.address})
CreateOwner(c) ==
    /\ req[c].pc = "createOwner"
    /\ req' = [req EXCEPT ![c].created = TRUE, ![c].pc = AfterOwner(c)]
    /\ UNCHANGED <<Owner, NaturalPerson, LegalEntity, RegistrationDoc, last, crudVars>>

\* RegistrationDoc.update({address}, {where})
UpdateDocs(c) ==
    /\ req[c].pc = "updateDocs"
    /\ ~(Active(Other(c)) /\ DocsMatching(c) \cap req[Other(c)].rewritten # {})
    /\ req' = [req EXCEPT ![c].rewritten = DocsMatching(c), ![c].pc = "updateParty"]
    /\ UNCHANGED <<Owner, NaturalPerson, LegalEntity, RegistrationDoc, last, crudVars>>

\* NaturalPerson.update / LegalEntity.update
UpdateParty(c) ==
    /\ req[c].pc = "updateParty"
    /\ ~(/\ Active(Other(c))
         /\ req[Other(c)].wroteParty
         /\ req[Other(c)].key = req[c].key)
    /\ req' = [req EXCEPT ![c].wroteParty = TRUE, ![c].pc = "countNaturalPersons"]
    /\ UNCHANGED <<Owner, NaturalPerson, LegalEntity, RegistrationDoc, last, crudVars>>

\* NaturalPerson.count({where: {address: oldAddress}})
CountNaturalPersons(c) ==
    /\ req[c].pc = "countNaturalPersons"
    /\ req' = [req EXCEPT
                 ![c].linked = Cardinality({k \in DOMAIN NaturalPerson :
                     NaturalPersonSeenBy(c, k).address = req[c].oldAddress}),
                 ![c].pc = "countLegalEntities"]
    /\ UNCHANGED <<Owner, NaturalPerson, LegalEntity, RegistrationDoc, last, crudVars>>

\* LegalEntity.count({where: {address: oldAddress}})
CountLegalEntities(c) ==
    /\ req[c].pc = "countLegalEntities"
    /\ req' = [req EXCEPT
                 ![c].linked = @ + Cardinality({k \in DOMAIN LegalEntity :
                     LegalEntitySeenBy(c, k).address = req[c].oldAddress}),
                 ![c].pc = "countRegDocs"]
    /\ UNCHANGED <<Owner, NaturalPerson, LegalEntity, RegistrationDoc, last, crudVars>>

\* RegistrationDoc.count({where: {address: oldAddress}}) and the test of the
\* three counts
CountRegDocs(c) ==
    /\ req[c].pc = "countRegDocs"
    /\ LET total == req[c].linked + Cardinality({r \in DOMAIN RegistrationDoc :
                        DocSeenBy(c, r).address = req[c].oldAddress})
       IN  req' = [req EXCEPT ![c].linked = total,
                              ![c].pc = IF total = 0 THEN "destroyOwner" ELSE "commit"]
    /\ UNCHANGED <<Owner, NaturalPerson, LegalEntity, RegistrationDoc, last, crudVars>>

\* Owner.destroy({where: {address: oldAddress}})
DestroyOwner(c) ==
    /\ req[c].pc = "destroyOwner"
    /\ ~(/\ Active(Other(c))
         /\ req[Other(c)].destroyed > 0
         /\ req[Other(c)].oldAddress = req[c].oldAddress)
    /\ req' = [req EXCEPT ![c].destroyed = OwnerSeenBy(c, req[c].oldAddress),
                          ![c].pc = "commit"]
    /\ UNCHANGED <<Owner, NaturalPerson, LegalEntity, RegistrationDoc, last, crudVars>>

\* transaction.commit(): the writes of the transaction reach the tables
Commit(c) ==
    /\ req[c].pc = "commit"
    /\ Owner' = [a \in Addresses |-> OwnerSeenBy(c, a)]
    /\ RegistrationDoc' = [r \in DOMAIN RegistrationDoc |-> DocSeenBy(c, r)]
    /\ NaturalPerson' = [k \in DOMAIN NaturalPerson |-> NaturalPersonSeenBy(c, k)]
    /\ LegalEntity' = [k \in DOMAIN LegalEntity |-> LegalEntitySeenBy(c, k)]
    /\ req' = [req EXCEPT ![c].pc = "done", ![c].status = "ok"]
    /\ UNCHANGED <<last, crudVars>>

\* the documents of the concurrent runs carry their owner's address
InitConcurrent ==
    /\ NaturalPerson \in PartialFunctions(Passports, NaturalPersonRows)
    /\ LegalEntity \in PartialFunctions(TaxNumbers, LegalEntityRows)
    /\ RegistrationDoc \in
         {d \in PartialFunctions(RegNumbers,
                  [address : Addresses,
                   documentOwner : DOMAIN NaturalPerson \cup DOMAIN LegalEntity]) :
            \A r \in DOMAIN d :
               d[r].address = IF d[r].documentOwner \in DOMAIN NaturalPerson
                              THEN NaturalPerson[d[r].documentOwner].address
                              ELSE LegalEntity[d[r].documentOwner].address}
    /\ Owner = RegistryOf([NaturalPerson |-> NaturalPerson,
                           LegalEntity |-> LegalEntity,
                           RegistrationDoc |-> RegistrationDoc])
    /\ last = NoRequest
    /\ req = [c \in Clients |-> Idle]
    /\ CrudIdle

NextConcurrent ==
    \E c \in Clients :
        \/ Begin(c)
        \/ FindDocs(c)
        \/ FindOwner(c)
        \/ CreateOwner(c)
        \/ UpdateDocs(c)
        \/ UpdateParty(c)
        \/ CountNaturalPersons(c)
        \/ CountLegalEntities(c)
        \/ CountRegDocs(c)
        \/ DestroyOwner(c)
        \/ Commit(c)

SpecConcurrent == InitConcurrent /\ [][NextConcurrent]_vars

\* ============================================ EmployeeCrudController
\* (admin/employeeCrudController.js, the controller routed by badge number)
NumBadges == 2

BadgePool      == <<"12-3456", "65-4321", "77-0001">>
BadgeNumbers   == {BadgePool[i] : i \in 1..NumBadges}
MalformedBadge == "12"
BadgeInputs    == BadgeNumbers \cup {MalformedBadge}

\* the columns a PUT or PATCH may carry; lastName stands for the three name
\* columns lastName, firstName, patronymic, which the schemas constrain alike
EmployeeColumns == {"unitCode", "lastName", "rank"}
EmployeeFields  == {"badgeNumber"} \cup EmployeeColumns
ValuePool       == <<"v1", "v2">>
FieldValues     == {ValuePool[i] : i \in DOMAIN ValuePool}

ownerVars == <<Owner, NaturalPerson, LegalEntity, RegistrationDoc, last, req>>

\* the party side of the application at rest
OwnerIdle ==
    /\ Owner = [a \in Addresses |-> 0]
    /\ NaturalPerson = EmptyTable
    /\ LegalEntity = EmptyTable
    /\ RegistrationDoc = EmptyTable
    /\ last = NoRequest
    /\ req = [c \in Clients |-> Idle]

\* request bodies: any subset of the columns, each with a value, or a whole
\* row with a badge number
EmployeePayloads ==
    UNION {{u \in [D -> FieldValues \cup BadgeInputs] :
              \A f \in D : (f = "badgeNumber") <=> (u[f] \in BadgeInputs)} :
           D \in SUBSET EmployeeColumns \cup {EmployeeFields}}

\* /^\d{2}-\d{4}$/
BadgePattern(badgeNumber) == \E i \in DOMAIN BadgePool : BadgePool[i] = badgeNumber

\* Joi objects: every required key present, no key outside the schema
employeeSchema(body) ==
    /\ DOMAIN body = EmployeeFields
    /\ BadgePattern(body.badgeNumber)
employeePutSchema(body) == DOMAIN body = EmployeeColumns
employeePatchSchema(body) ==
    DOMAIN body # {} /\ DOMAIN body \subseteq EmployeeColumns

\* Model.findOne({where: {column: value}}): the keys of the matching rows
FindBy(table, column, value) == {k \in DOMAIN table : table[k][column] = value}

\* Model.create(row) under primary key pk
Insert(table, pk, row) ==
    [k \in DOMAIN table \cup {pk} |-> IF k = pk THEN row ELSE table[k]]
\* instance.destroy()
Remove(table, pk) == [k \in DOMAIN table \ {pk} |-> table[k]]

\* instance.update(values): the named columns take the payload's values
UpdateInstance(row, values) ==
    [f \in DOMAIN row |-> IF f \in DOMAIN values THEN values[f] ELSE row[f]]
\* an update that writes the payload as the whole row
ReplaceInstance(row, values) ==
    [f \in DOMAIN row |-> IF f \in DOMAIN values THEN values[f]
                          ELSE IF f = "badgeNumber" THEN row[f] ELSE ValuePool[1]]

\* outcome of a handler: the table it leaves, the HTTP status, what happened
\* to its transaction, the response body, the list query it issued
Outcome(table, status, tx, body, listQuery) ==
    [table |-> table, status |-> status, tx |-> tx, body |-> body,
     listQuery |-> listQuery]

\* throw inside try of a handler that opened a transaction: catch block
\* rolls back and forwards the error
Thrown(table, status) ==
    Outcome(table, status, <<"begin", "rollback">>, NoBody, NoQuery)
\* commit, then the response
Committed(table, status, body) ==
    Outcome(table, status, <<"begin", "commit">>, body, NoQuery)
\* handlers without a transaction
Answered(table, status, body, listQuery) ==
    Outcome(table, status, << >>, body, listQuery)

\* a create that does not look for the badge number first
createEmployeeUnchecked(table, body) ==
    IF ~employeeSchema(body) THEN Thrown(table, "badRequest")
    ELSE Committed(Insert(table, body.badgeNumber, body), "created", body)

createEmployee(table, body) ==
    IF ~employeeSchema(body) THEN Thrown(table, "badRequest")
    ELSE IF FindBy(table, "badgeNumber", body.badgeNumber) # {}
         THEN Thrown(table, "conflict")
    ELSE Committed(Insert(table, body.badgeNumber, body), "created", body)

\* a full update that answers with the row it read
updateEmployeeStaleBody(table, badgeNumber, body) ==
    IF ~employeePutSchema(body) THEN Thrown(table, "badRequest")
    ELSE IF badgeNumber \notin DOMAIN table THEN Thrown(table, "notFound")
    ELSE LET employee == UpdateInstance(table[badgeNumber], body)
         IN  Committed([table EXCEPT ![badgeNumber] = employee], "ok",
                       table[badgeNumber])

updateEmployee(table, badgeNumber, body) ==
    IF ~employeePutSchema(body) THEN Thrown(table, "badRequest")
    ELSE IF badgeNumber \notin DOMAIN table THEN Thrown(table, "notFound")
    ELSE LET employee == UpdateInstance(table[badgeNumber], body)
         IN  Committed([table EXCEPT ![badgeNumber] = employee], "ok", employee)

\* a patch that resets the columns the payload leaves out
patchEmployeeReplacing(table, badgeNumber, body) ==
    IF ~employeePatchSchema(body) THEN Thrown(table, "badRequest")
    ELSE IF "badgeNumber" \in DOMAIN body THEN Thrown(table, "badRequest")
    ELSE IF badgeNumber \notin DOMAIN table THEN Thrown(table, "notFound")
    ELSE LET employee == ReplaceInstance(table[badgeNumber], body)
         IN  Committed([table EXCEPT ![badgeNumber] = employee], "ok", employee)

patchEmployee(table, badgeNumber, body) ==
    IF ~employeePatchSchema(body) THEN Thrown(table, "badRequest")
    ELSE IF "badgeNumber" \in DOMAIN body THEN Thrown(table, "badRequest")
    ELSE IF badgeNumber \notin DOMAIN table THEN Thrown(table, "notFound")
    ELSE LET employee == UpdateInstance(table[badgeNumber], body)
         IN  Committed([table EXCEPT ![badgeNumber] = employee], "ok", employee)

\* a delete that empties the table
deleteEmployeeTruncating(table, badgeNumber) ==
    IF badgeNumber \notin DOMAIN table THEN Thrown(table, "notFound")
    ELSE Committed(EmptyTable, "noContent", NoBody)

\* a delete that answers 204 and leaves the row
deleteEmployeeKeeping(table, badgeNumber) ==
    IF badgeNumber \notin DOMAIN table THEN Thrown(table, "notFound")
    ELSE Committed(table, "noContent", NoBody)

deleteEmployee(table, badgeNumber) ==
    IF badgeNumber \notin DOMAIN table THEN Thrown(table, "notFound")
    ELSE Committed(Remove(table, badgeNumber), "noContent", NoBody)

\* GET /search: exactly one of the search keys (unitCode, the third, is
\* searched like lastName); the possible outcomes, one per row findOne may
\* return
SearchKeys == {"badgeNumber", "lastName"}
SearchQueries ==
    UNION {{u \in [D -> FieldValues \cup BadgeInputs] :
              \A f \in D : (f = "badgeNumber") <=> (u[f] \in BadgeInputs)} :
           D \in {S \in SUBSET SearchKeys : Cardinality(S) <= 2}}

getEmployeeByField(table, query) ==
    IF Cardinality(DOMAIN query) # 1
    THEN {Answered(table, "badRequest", NoBody, NoQuery)}
    ELSE LET column == CHOOSE f \in DOMAIN query : TRUE
             found  == FindBy(table, column, query[column])
         IN  IF found = {} THEN {Answered(table, "notFound", NoBody, NoQuery)}
             ELSE {Answered(table, "ok", table[k], NoQuery) : k \in found}

\* ------------------------------------------------------------ list queries
\* a query parameter the request does not carry
NoParam   == -1
NoSort    == ""

\* order of the column values and keys, as the database collates them
SortPool == ValuePool \o BadgePool \o AddressPool
              \o <<"1234 567890", "7700000001", "XTA21099043512345", "Z94CB41AAGR323020">>
              \o <<"CH00001", "CH00002", "AB12345", "CD67890", "EF13579">>
Rank(x) == CHOOSE i \in DOMAIN SortPool : SortPool[i] = x

\* the value row k is ordered by: its key column or one of its other columns
SortValue(table, k, column, keyColumn) ==
    IF column = keyColumn THEN k ELSE table[k][column]

\* ORDER BY column: the keys of the table in that order; rows with equal
\* values follow their primary keys
Sorted(table, column, keyColumn, descending) ==
    LET n == Cardinality(DOMAIN table)
        Less(a, b) ==
            LET va == Rank(SortValue(table, a, column, keyColumn))
                vb == Rank(SortValue(table, b, column, keyColumn))
            IN  va < vb \/ (va = vb /\ Rank(a) < Rank(b))
        asc == CHOOSE s \in [1..n -> DOMAIN table] :
                   \A i, j \in 1..n : i < j => Less(s[i], s[j])
    IN  [i \in 1..n |-> IF descending THEN asc[n + 1 - i] ELSE asc[i]]

\* LIMIT limit OFFSET offset
Page(rows, limit, offset) ==
    IF offset >= Len(rows) THEN << >>
    ELSE SubSeq(rows, offset + 1,
                IF offset + limit < Len(rows) THEN offset + limit ELSE Len(rows))

\* Math.ceil(count / limit)
Ceil(count, limit) == (count + limit - 1) \div limit

\* findAndCountAll({limit, offset, order}) and the list body built from it;
\* data holds the primary keys of the rows returned
ListBody(table, column, keyColumn, descending, page, limit) ==
    [total |-> Cardinality(DOMAIN table), pages |-> Ceil(Cardinality(DOMAIN table), limit),
     currentPage |-> page,
     data |-> Page(Sorted(table, column, keyColumn, descending), limit, (page - 1) * limit)]

\* what reached findAndCountAll
ListQuery(page, limit, offset) == [page |-> page, limit |-> limit, offset |-> offset]

\* .toLowerCase() of the sort orders a request may carry
ToLowerCase(sortOrder) ==
    CASE sortOrder = "ASC" -> "asc" [] sortOrder = "DESC" -> "desc"
      [] OTHER -> sortOrder
ToUpperCase(sortOrder) ==
    CASE sortOrder = "asc" -> "ASC" [] sortOrder = "desc" -> "DESC"
      [] OTHER -> sortOrder

\* ------------------------------------- EmployeeCrudController.getAllEmployees
EmployeeMaxLimit     == 50
EmployeeDefaultLimit == 15
DefaultPage          == 1
EmployeeSortFields   == {"badgeNumber", "unitCode", "lastName", "rank"}

\* sortField and sortOrder as requests combine them
SortInputs(field, unknownField) ==
    {<<NoSort, NoSort>>, <<field, "DESC">>, <<unknownField, NoSort>>,
     <<NoSort, "sideways">>}

EmployeeListQueries ==
    {[limit |-> l, page |-> p, sortField |-> s[1], sortOrder |-> s[2]] :
        l \in {NoParam, 0, 1, EmployeeMaxLimit, EmployeeMaxLimit + 1},
        p \in {NoParam, 0, 2},
        s \in SortInputs("rank", "salary")}

getAllEmployees(table, query) ==
    LET sortOrder == ToLowerCase(query.sortOrder)
        valid ==
            /\ query.limit = NoParam \/ query.limit \in 1..EmployeeMaxLimit
            /\ query.page = NoParam \/ query.page >= 1
            /\ query.sortField = NoSort \/ query.sortField \in EmployeeSortFields
            /\ sortOrder \in {NoSort, "asc", "desc"}
        limit == IF query.limit = NoParam THEN EmployeeDefaultLimit ELSE query.limit
        page  == IF query.page = NoParam THEN DefaultPage ELSE query.page
        sortField == IF query.sortField = NoSort THEN "lastName" ELSE query.sortField
    IN  IF ~valid THEN Answered(table, "badRequest", NoBody, NoQuery)
        ELSE Answered(table, "ok",
                 ListBody(table, sortField, "badgeNumber", sortOrder = "desc", page, limit),
                 ListQuery(page, limit, (page - 1) * limit))

\* ------------------------------------------------------ employee actions
CrudRespond(op, key, payload, result) ==
    /\ reply' = [op |-> op, key |-> key, payload |-> payload,
                 status |-> result.status, tx |-> result.tx, body |-> result.body,
                 listQuery |-> result.listQuery]

EmployeeRespond(op, key, payload, result) ==
    /\ Employee' = result.table
    /\ CrudRespond(op, key, payload, result)
    /\ UNCHANGED <<ownerVars, TransportVehicle, adminVars>>

GetAllEmployees ==
    \E query \in EmployeeListQueries :
        EmployeeRespond("getAllEmployees", "", query, getAllEmployees(Employee, query))

GetEmployeeByField ==
    \E query \in SearchQueries :
        \E result \in getEmployeeByField(Employee, query) :
            EmployeeRespond("getEmployeeByField", "", query, result)

CreateEmployee ==
    \E body \in EmployeePayloads :
        EmployeeRespond("createEmployee", "", body, createEmployee(Employee, body))

UpdateEmployee ==
    \E badgeNumber \in BadgeNumbers, body \in EmployeePayloads :
        EmployeeRespond("updateEmployee", badgeNumber, body,
                        updateEmployee(Employee, badgeNumber, body))

PatchEmployee ==
    \E badgeNumber \in BadgeNumbers, body \in EmployeePayloads :
        EmployeeRespond("patchEmployee", badgeNumber, body,
                        patchEmployee(Employee, badgeNumber, body))

DeleteEmployee ==
    \E badgeNumber \in BadgeNumbers :
        EmployeeRespond("deleteEmployee", badgeNumber, << >>,
                        deleteEmployee(Employee, badgeNumber))

InitEmployee ==
    /\ OwnerIdle
    /\ CrudIdle

NextEmployee ==
    \/ GetAllEmployees
    \/ GetEmployeeByField
    \/ CreateEmployee
    \/ UpdateEmployee
    \/ PatchEmployee
    \/ DeleteEmployee

SpecEmployee == InitEmployee /\ [][NextEmployee]_vars

\* ========================================= TransportVehicleController
\* (employee/vehicleController.js, the controller routed by :vin)
VinPool      == <<"XTA21099043512345", "Z94CB41AAGR323020">>
Vins         == {VinPool[i] : i \in DOMAIN VinPool}
MalformedVin == "XTA2109"
VinInputs    == Vins \cup {MalformedVin}

\* /^[A-HJ-NPR-Z0-9]{17}$/
VinPattern(vin) == vin \in Vins

\* chassisNumber: null, the vehicle's VIN, or a number of its own
NoChassis       == ""
OwnChassis      == "CH00001"
OtherChassis    == "CH00002"
ChassisOf(vin)  == {NoChassis, vin, OwnChassis}

\* makeAndModel stands for the columns every update may write
VehicleRows(vin) ==
    [vin : {vin}, chassisNumber : ChassisOf(vin), makeAndModel : FieldValues]
VehicleTables ==
    UNION {{t \in [D -> UNION {VehicleRows(v) : v \in D}] :
              \A v \in D : t[v].vin = v} : D \in SUBSET Vins}

\* RegistrationDoc.findOne({where: {vin}})
HasRegDocs(docs, vin) == \E r \in DOMAIN docs : docs[r].vin = vin

\* JSON booleans of the request body
JsonBooleans == {"true", "false"}
Truthy(value) == value = "true"

VehicleBodyKeys == {"makeAndModel", "hasChassisNumber"}
VehiclePayloads ==
    UNION {{u \in [D -> FieldValues \cup JsonBooleans] :
              \A f \in D : (f = "hasChassisNumber") <=> (u[f] \in JsonBooleans)} :
           D \in SUBSET VehicleBodyKeys}

\* validations/vehicleShema: the full update requires the columns, the
\* partial update requires at least one key; hasChassisNumber is optional
vehicleUpdateSchema(body) ==
    "makeAndModel" \in DOMAIN body /\ DOMAIN body \subseteq VehicleBodyKeys
vehiclePatchSchema(body) ==
    DOMAIN body # {} /\ DOMAIN body \subseteq VehicleBodyKeys

\* vehicle.update(updateData, {fields}): the listed columns present in
\* updateData are written
VehicleColumns == {"makeAndModel", "chassisNumber"}
UpdateFields(row, updateData, fields) ==
    [f \in DOMAIN row |->
        IF f \in fields /\ f \in DOMAIN updateData THEN updateData[f] ELSE row[f]]

\* { ...req.body, chassisNumber: value }
WithChassis(body, value) ==
    [f \in DOMAIN body \cup {"chassisNumber"} |->
        IF f = "chassisNumber" THEN value ELSE body[f]]

\* the chassis number the body asks for: req.body.hasChassisNumber ? vin : null
ChassisFromFlag(body, vin) ==
    IF "hasChassisNumber" \in DOMAIN body /\ Truthy(body.hasChassisNumber)
    THEN vin ELSE NoChassis

updateTransportVehicle(table, vin, body) ==
    IF ~VinPattern(vin) THEN Thrown(table, "badRequest")
    ELSE IF ~vehicleUpdateSchema(body) THEN Thrown(table, "badRequest")
    ELSE IF vin \notin DOMAIN table THEN Thrown(table, "notFound")
    ELSE LET updateData == WithChassis(body, ChassisFromFlag(body, vin))
             vehicle == UpdateFields(table[vin], updateData, VehicleColumns)
         IN  Committed([table EXCEPT ![vin] = vehicle], "ok", vehicle)

patchTransportVehicle(table, vin, body) ==
    IF ~VinPattern(vin) THEN Thrown(table, "badRequest")
    ELSE IF ~vehiclePatchSchema(body) THEN Thrown(table, "badRequest")
    ELSE IF vin \notin DOMAIN table THEN Thrown(table, "notFound")
    ELSE LET updateData == IF "hasChassisNumber" \in DOMAIN body
                           THEN WithChassis(body, ChassisFromFlag(body, vin))
                           ELSE body
             vehicle == UpdateFields(table[vin], updateData,
                                     DOMAIN updateData \cap VehicleColumns)
         IN  Committed([table EXCEPT ![vin] = vehicle], "ok", vehicle)

getTransportVehicleByVin(table, vin) ==
    IF ~VinPattern(vin) THEN Answered(table, "badRequest", NoBody, NoQuery)
    ELSE IF FindBy(table, "vin", vin) = {}
         THEN Answered(table, "notFound", NoBody, NoQuery)
    ELSE Answered(table, "ok", table[vin], NoQuery)

VehicleMaxLimit     == 100
VehicleDefaultLimit == 10
VehicleSortFields   == {"createdAt", "releaseYear", "makeAndModel", "engineVolume"}

VehicleListQueries ==
    {[limit |-> l, page |-> p, sortBy |-> s[1], sortOrder |-> s[2]] :
        l \in {NoParam, 0, 1, VehicleMaxLimit, VehicleMaxLimit + 1},
        p \in {NoParam, 0, 2},
        s \in SortInputs("makeAndModel", "unknownField")}

\* rows ordered by a column the rows here do not carry (createdAt, the
\* default) are listed in the order of their keys
VehicleSortColumn(sortBy) ==
    IF sortBy = "makeAndModel" THEN "makeAndModel" ELSE "vin"

getAllTransportVehicle(table, query) ==
    LET valid ==
            /\ query.limit = NoParam \/ query.limit \in 1..VehicleMaxLimit
            /\ query.page = NoParam \/ query.page >= 1
            /\ query.sortBy = NoSort \/ query.sortBy \in VehicleSortFields
            /\ query.sortOrder \in {NoSort, "ASC", "DESC"}
        limit == IF query.limit = NoParam THEN VehicleDefaultLimit ELSE query.limit
        page  == IF query.page = NoParam THEN DefaultPage ELSE query.page
        sortBy == IF query.sortBy = NoSort THEN "createdAt" ELSE query.sortBy
        sortOrder == IF query.sortOrder = NoSort THEN "DESC" ELSE query.sortOrder
    IN  IF ~valid THEN Answered(table, "badRequest", NoBody, NoQuery)
        ELSE Answered(table, "ok",
                 ListBody(table, VehicleSortColumn(sortBy), "vin",
                          sortOrder = "DESC", page, limit),
                 ListQuery(page, limit, (page - 1) * limit))

VehicleRespond(op, key, payload, result) ==
    /\ TransportVehicle' = result.table
    /\ CrudRespond(op, key, payload, result)
    /\ UNCHANGED <<ownerVars, Employee, adminVars>>

GetAllTransportVehicle ==
    \E query \in VehicleListQueries :
        VehicleRespond("getAllTransportVehicle", "", query,
                       getAllTransportVehicle(TransportVehicle, query))

GetTransportVehicleByVin ==
    \E vin \in VinInputs :
        VehicleRespond("getTransportVehicleByVin", vin, << >>,
                       getTransportVehicleByVin(TransportVehicle, vin))

UpdateTransportVehicle ==
    \E vin \in VinInputs, body \in VehiclePayloads :
        VehicleRespond("updateTransportVehicle", vin, body,
                       updateTransportVehicle(TransportVehicle, vin, body))

PatchTransportVehicle ==
    \E vin \in VinInputs, body \in VehiclePayloads :
        VehicleRespond("patchTransportVehicle", vin, body,
                       patchTransportVehicle(TransportVehicle, vin, body))

\* one natural person, any vehicles, and registration documents of that
\* person for some of the vehicles
VehicleOwner == CHOOSE passport \in Passports : TRUE
InitVehicle ==
    /\ TransportVehicle \in VehicleTables
    /\ NaturalPerson = [k \in {VehicleOwner} |->
                          [address |-> AddressPool[1], lastName |-> InitialName]]
    /\ LegalEntity = EmptyTable
    /\ RegistrationDoc \in PartialFunctions(RegNumbers,
           [address : {AddressPool[1]}, documentOwner : {VehicleOwner},
            vin : DOMAIN TransportVehicle])
    /\ Owner = [a \in Addresses |-> IF a = AddressPool[1] THEN 1 ELSE 0]
    /\ last = NoRequest
    /\ req = [c \in Clients |-> Idle]
    /\ Employee = EmptyTable
    /\ reply = NoReply
    /\ AdminIdle

NextVehicle ==
    \/ GetAllTransportVehicle
    \/ GetTransportVehicleByVin
    \/ UpdateTransportVehicle
    \/ PatchTransportVehicle

SpecVehicle == InitVehicle /\ [][NextVehicle]_vars

\* ===================== EmployeeCrudController, first definition
\* (admin/employeeCrudController.js:1-173, the controller routed by :id).
\* Rows are indexed by their badge number, which the handlers keep unique;
\* id names the row a request addresses.
BadgePool1      == <<"AB12345", "CD67890", "EF13579">>
BadgeNumbers1   == {BadgePool1[i] : i \in 1..NumBadges}
MalformedBadge1 == "ab"
BadgeInputs1    == BadgeNumbers1 \cup {MalformedBadge1}

EmployeePayloads1 ==
    UNION {{u \in [D -> FieldValues \cup BadgeInputs1] :
              \A f \in D : (f = "badgeNumber") <=> (u[f] \in BadgeInputs1)} :
           D \in SUBSET EmployeeColumns \cup {EmployeeFields}}

\* /^[A-Z0-9]{5,10}$/
BadgePattern1(badgeNumber) ==
    \E i \in DOMAIN BadgePool1 : BadgePool1[i] = badgeNumber

employeeSchema1(body) ==
    /\ DOMAIN body = EmployeeFields
    /\ BadgePattern1(body.badgeNumber)

\* (page - 1) * limit with page or limit undefined: no number
NaN == NoParam

\* the list handlers that validate req.query and then read limit and page
\* from req.query itself: the schema's defaults are not applied, and every
\* error leaves as ApiError.internal. With a parameter absent the query
\* carries undefined and an offset of NaN, which the storage layer rejects
\* or ignores.
LegacyList(table, column, keyColumn, descending, query, valid, complete) ==
    IF ~valid THEN {Answered(table, "internal", NoBody, NoQuery)}
    ELSE IF ~complete
    THEN {Answered(table, "internal", NoBody, ListQuery(query.page, query.limit, NaN)),
          Answered(table, "ok",
                   [total |-> Cardinality(DOMAIN table), pages |-> NaN,
                    currentPage |-> query.page,
                    data |-> Sorted(table, column, keyColumn, descending)],
                   ListQuery(query.page, query.limit, NaN))}
    ELSE {Answered(table, "ok",
                   ListBody(table, column, keyColumn, descending, query.page, query.limit),
                   ListQuery(query.page, query.limit, (query.page - 1) * query.limit))}

LegacyMaxLimit == 100

PageQueries ==
    [limit : {NoParam, 0, 1, LegacyMaxLimit, LegacyMaxLimit + 1},
     page : {NoParam, 0, 2}]

getAllEmployees1(table, query) ==
    LegacyList(table, "lastName", "badgeNumber", FALSE, query,
               /\ query.limit = NoParam \/ query.limit \in 1..LegacyMaxLimit
               /\ query.page = NoParam \/ query.page >= 1,
               query.limit # NoParam /\ query.page # NoParam)

createEmployee1(table, body) ==
    IF ~employeeSchema1(body) THEN Thrown(table, "badRequest")
    ELSE IF FindBy(table, "badgeNumber", body.badgeNumber) # {}
         THEN Thrown(table, "conflict")
    ELSE Committed(Insert(table, body.badgeNumber, body), "created", body)

\* employee.update(req.body) with req.body.badgeNumber required by the
\* schema: the row takes the body's badge number
updateEmployee1(table, id, body) ==
    IF ~employeeSchema1(body) THEN Thrown(table, "badRequest")
    ELSE IF id \notin DOMAIN table THEN Thrown(table, "notFound")
    ELSE IF /\ body.badgeNumber # table[id].badgeNumber
            /\ FindBy(table, "badgeNumber", body.badgeNumber) # {}
         THEN Thrown(table, "conflict")
    ELSE LET employee == UpdateInstance(table[id], body)
         IN  Committed(Insert(Remove(table, id), employee.badgeNumber, employee),
                       "ok", employee)

deleteEmployee1(table, id) ==
    IF id \notin DOMAIN table THEN Thrown(table, "notFound")
    ELSE Committed(Remove(table, id), "noContent", NoBody)

GetAllEmployees1 ==
    \E query \in PageQueries :
        \E result \in getAllEmployees1(Employee, query) :
            EmployeeRespond("getAllEmployees", "", query, result)

CreateEmployee1 ==
    \E body \in EmployeePayloads1 :
        EmployeeRespond("createEmployee", "", body, createEmployee1(Employee, body))

UpdateEmployee1 ==
    \E id \in BadgeNumbers1, body \in EmployeePayloads1 :
        EmployeeRespond("updateEmployee", id, body, updateEmployee1(Employee, id, body))

DeleteEmployee1 ==
    \E id \in BadgeNumbers1 :
        EmployeeRespond("deleteEmployee", id, << >>, deleteEmployee1(Employee, id))

NextEmployee1 ==
    \/ GetAllEmployees1
    \/ CreateEmployee1
    \/ UpdateEmployee1
    \/ DeleteEmployee1

SpecEmployee1 == InitEmployee /\ [][NextEmployee1]_vars

\* ================== TransportVehicleController, first definition
\* (employee/vehicleController.js:1-171, the controller routed by :id)
VehicleFields1 == {"vin", "makeAndModel", "chassisNumber"}
VehiclePayloads1 ==
    UNION {{u \in [D -> FieldValues \cup VinInputs \cup {OwnChassis, OtherChassis}] :
              \A f \in D :
                 /\ (f = "vin") <=> (u[f] \in VinInputs)
                 /\ (f = "chassisNumber") <=> (u[f] \in {OwnChassis, OtherChassis})} :
           D \in {VehicleFields1, {"makeAndModel"}}}

vehicleSchema(body) ==
    DOMAIN body = VehicleFields1 /\ VinPattern(body.vin)

\* chassisNumber stands for the restricted columns chassisNumber,
\* bodyNumber and engineModel
restrictedFields == {"vin", "chassisNumber"}

updateTransportVehicle1(table, docs, id, body) ==
    IF ~vehicleSchema(body) THEN Thrown(table, "badRequest")
    ELSE IF body.vin # id THEN Thrown(table, "badRequest")
    ELSE IF id \notin DOMAIN table THEN Thrown(table, "notFound")
    ELSE IF /\ HasRegDocs(docs, id)
            /\ \E field \in restrictedFields : body[field] # table[id][field]
         THEN Thrown(table, "badRequest")
    ELSE LET vehicle == UpdateFields(table[id], body, VehicleColumns)
         IN  Committed([table EXCEPT ![id] = vehicle], "ok", vehicle)

getTransportVehicleById(table, id) ==
    IF ~VinPattern(id) THEN Answered(table, "badRequest", NoBody, NoQuery)
    ELSE IF id \notin DOMAIN table THEN Answered(table, "notFound", NoBody, NoQuery)
    ELSE Answered(table, "ok", table[id], NoQuery)

VehicleSortFields1 == {"makeAndModel", "releaseYear", "engineVolume"}

VehicleListQueries1 ==
    {[limit |-> l, page |-> p, sortBy |-> s[1], sortOrder |-> s[2]] :
        l \in {NoParam, 1, LegacyMaxLimit + 1},
        p \in {NoParam, 0, 2},
        s \in SortInputs("makeAndModel", "unknownField")
                \cup {<<"makeAndModel", "ASC">>}}

getAllTransportVehicle1(table, query) ==
    LegacyList(table, VehicleSortColumn(query.sortBy), "vin",
               query.sortOrder = "DESC", query,
               /\ query.limit = NoParam \/ query.limit \in 1..LegacyMaxLimit
               /\ query.page = NoParam \/ query.page >= 1
               /\ query.sortBy = NoSort \/ query.sortBy \in VehicleSortFields1
               /\ query.sortOrder \in {NoSort, "ASC", "DESC"},
               /\ query.limit # NoParam /\ query.page # NoParam
               /\ query.sortBy # NoSort /\ query.sortOrder # NoSort)

GetAllTransportVehicle1 ==
    \E query \in VehicleListQueries1 :
        \E result \in getAllTransportVehicle1(TransportVehicle, query) :
            VehicleRespond("getAllTransportVehicle", "", query, result)

GetTransportVehicleById ==
    \E id \in VinInputs :
        VehicleRespond("getTransportVehicleById", id, << >>,
                       getTransportVehicleById(TransportVehicle, id))

UpdateTransportVehicle1 ==
    \E id \in VinInputs, body \in VehiclePayloads1 :
        VehicleRespond("updateTransportVehicle", id, body,
            updateTransportVehicle1(TransportVehicle, RegistrationDoc, id, body))

NextVehicle1 ==
    \/ GetAllTransportVehicle1
    \/ GetTransportVehicleById
    \/ UpdateTransportVehicle1

SpecVehicle1 == InitVehicle /\ [][NextVehicle1]_vars

\* ============================== OwnerController: list and lookup handlers
OwnerDefaultLimit == 10

OwnerListQueries(sortField) ==
    {[limit |-> l, page |-> p, sortBy |-> s[1], sortOrder |-> s[2]] :
        l \in {NoParam, 0, 1, LegacyMaxLimit + 1},
        p \in {NoParam, 0, 2},
        s \in SortInputs(sortField, "unknownField")}

\* const { page = 1, limit = 10, sortBy = keyColumn, sortOrder = 'ASC' };
\* neither page nor limit is validated. The storage layer rejects a
\* negative OFFSET.
OwnerList(table, keyColumn, query) ==
    LET page   == IF query.page = NoParam THEN DefaultPage ELSE query.page
        limit  == IF query.limit = NoParam THEN OwnerDefaultLimit ELSE query.limit
        sortBy == IF query.sortBy = NoSort THEN keyColumn ELSE query.sortBy
        sortOrder == IF query.sortOrder = NoSort THEN "ASC" ELSE query.sortOrder
        offset == (page - 1) * limit
    IN  IF sortBy \notin {keyColumn, "address"}
        THEN Answered(table, "badRequest", NoBody, NoQuery)
        ELSE IF ToUpperCase(sortOrder) \notin {"ASC", "DESC"}
        THEN Answered(table, "badRequest", NoBody, NoQuery)
        ELSE IF offset < 0
        THEN Answered(table, "internal", NoBody, ListQuery(page, limit, offset))
        ELSE Answered(table, "ok",
                 [total |-> Cardinality(DOMAIN table), page |-> page, limit |-> limit,
                  data |-> Page(Sorted(table, sortBy, keyColumn,
                                       ToUpperCase(sortOrder) = "DESC"),
                                limit, offset)],
                 ListQuery(page, limit, offset))

getAllNaturalPersons(table, query) == OwnerList(table, "passportData", query)
getAllLegalEntities(table, query)  == OwnerList(table, "taxNumber", query)

getNaturalPersonByPassport(table, passport) ==
    IF ~WellFormedPassport(passport) THEN Answered(table, "badRequest", NoBody, NoQuery)
    ELSE IF passport \notin DOMAIN table THEN Answered(table, "notFound", NoBody, NoQuery)
    ELSE Answered(table, "ok", table[passport], NoQuery)

getLegalEntitiesByTax(table, taxNumber) ==
    IF taxNumber \notin TaxNumbers THEN Answered(table, "badRequest", NoBody, NoQuery)
    ELSE IF taxNumber \notin DOMAIN table THEN Answered(table, "notFound", NoBody, NoQuery)
    ELSE Answered(table, "ok", table[taxNumber], NoQuery)

OwnerRespond(op, key, payload, result) ==
    /\ CrudRespond(op, key, payload, result)
    /\ UNCHANGED <<ownerVars, Employee, TransportVehicle, adminVars>>

GetAllNaturalPersons ==
    \E query \in OwnerListQueries("address") :
        OwnerRespond("getAllNaturalPersons", "", query,
                     getAllNaturalPersons(NaturalPerson, query))

GetAllLegalEntities ==
    \E query \in OwnerListQueries("address") :
        OwnerRespond("getAllLegalEntities", "", query,
                     getAllLegalEntities(LegalEntity, query))

GetNaturalPersonByPassport ==
    \E passport \in PassportInputs :
        OwnerRespond("getNaturalPersonByPassport", passport, << >>,
                     getNaturalPersonByPassport(NaturalPerson, passport))

GetLegalEntitiesByTax ==
    \E taxNumber \in TaxNumbers \cup {MalformedPassport} :
        OwnerRespond("getLegalEntitiesByTax", taxNumber, << >>,
                     getLegalEntitiesByTax(LegalEntity, taxNumber))

NextOwnerList ==
    \/ GetAllNaturalPersons
    \/ GetAllLegalEntities
    \/ GetNaturalPersonByPassport
    \/ GetLegalEntitiesByTax

SpecOwnerList == Init /\ [][NextOwnerList]_vars

\* ============================================ RegDepartCrudController
\* (admin/employeeCrudController.js:413-605). The table is the sequence of
\* its rows in insertion order; unitCode is the column findByPk looks up.
MaxDepartments == 3

UnitCodePool == <<"770-001", "770-002">>
UnitCodes    == {UnitCodePool[i] : i \in DOMAIN UnitCodePool}
EmailPool    == <<"north@gibdd.ru", "south@gibdd.ru">>
Emails       == {EmailPool[i] : i \in DOMAIN EmailPool}

\* name stands for name, address, workingHours and phoneNumber, which the
\* schema requires and no handler reads
RegDepartFields == {"unitCode", "email", "name"}
RegDepartPayloads ==
    [unitCode : UnitCodes, email : Emails, name : FieldValues]
        \cup {[unitCode |-> u] : u \in UnitCodes}

regDepartSchema(body) == DOMAIN body = RegDepartFields

\* Model.findOne({where: {column: value}}) on a sequence of rows
RowsWith(table, column, value) ==
    {i \in DOMAIN table : table[i][column] = value}
FirstOf(rows) == CHOOSE i \in rows : \A j \in rows : i <= j

\* instance.destroy() of the row at position i
RemoveAt(table, i) ==
    [j \in 1..(Len(table) - 1) |-> IF j < i THEN table[j] ELSE table[j + 1]]

\* a create that looks for the unit code only
createRegDepartAnyEmail(table, body) ==
    IF ~regDepartSchema(body) THEN Thrown(table, "badRequest")
    ELSE IF RowsWith(table, "unitCode", body.unitCode) # {}
         THEN Thrown(table, "conflict")
    ELSE Committed(Append(table, body), "created", body)

createRegDepart(table, body) ==
    IF ~regDepartSchema(body) THEN Thrown(table, "badRequest")
    ELSE IF RowsWith(table, "unitCode", body.unitCode) # {}
         THEN Thrown(table, "conflict")
    ELSE IF RowsWith(table, "email", body.email) # {}
         THEN Thrown(table, "conflict")
    ELSE Committed(Append(table, body), "created", body)

\* department.update(req.body) with unitCode in the body: the row takes the
\* body's columns; whether the key column of a stored row is among them is
\* decided by the model definition, which the controller does not show, so
\* both rows are possible
updateRegDepart(table, id, body) ==
    IF ~regDepartSchema(body) THEN {Thrown(table, "badRequest")}
    ELSE IF RowsWith(table, "unitCode", id) = {} THEN {Thrown(table, "notFound")}
    ELSE LET i == FirstOf(RowsWith(table, "unitCode", id))
             department == table[i]
             written == UpdateInstance(department, body)
         IN  IF /\ body.unitCode # department.unitCode
                /\ RowsWith(table, "unitCode", body.unitCode) # {}
             THEN {Thrown(table, "conflict")}
             ELSE IF /\ body.email # department.email
                     /\ RowsWith(table, "email", body.email) # {}
             THEN {Thrown(table, "conflict")}
             ELSE {Committed([table EXCEPT ![i] = row], "ok", row) :
                      row \in {written,
                               [written EXCEPT !.unitCode = department.unitCode]}}

deleteRegDepart(table, id) ==
    IF RowsWith(table, "unitCode", id) = {} THEN Thrown(table, "notFound")
    ELSE Committed(RemoveAt(table, FirstOf(RowsWith(table, "unitCode", id))),
                   "noContent", NoBody)

RegDepartRespond(op, key, payload, result) ==
    /\ RegDepartment' = result.table
    /\ CrudRespond(op, key, payload, result)
    /\ UNCHANGED <<ownerVars, Employee, TransportVehicle, Work, RegistrationOp>>

CreateRegDepart ==
    \E body \in RegDepartPayloads :
        /\ Len(RegDepartment) < MaxDepartments
        /\ RegDepartRespond("createRegDepart", "", body,
                            createRegDepart(RegDepartment, body))

UpdateRegDepart ==
    \E id \in UnitCodes, body \in RegDepartPayloads :
        \E result \in updateRegDepart(RegDepartment, id, body) :
            RegDepartRespond("updateRegDepart", id, body, result)

DeleteRegDepart ==
    \E id \in UnitCodes :
        RegDepartRespond("deleteRegDepart", id, << >>,
                         deleteRegDepart(RegDepartment, id))

NextRegDepart ==
    \/ CreateRegDepart
    \/ UpdateRegDepart
    \/ DeleteRegDepart

SpecRegDepart == InitEmployee /\ [][NextRegDepart]_vars

\* ================= OwnerController: the party updates with their payloads
\* the four routes of part_004 served one after another, the request body
\* kept next to the outcome
RespondRecorded(op, key, updateData, result) ==
    /\ Served(op, key, updateData, result)
    /\ reply' = [NoReply EXCEPT !.op = op, !.key = key, !.payload = updateData,
                                !.status = result.status]
    /\ UNCHANGED <<req, Employee, TransportVehicle, adminVars>>

Recorded(op) ==
    \E key \in KeysOf(op), updateData \in Payloads(FieldsOf(op)) :
        RespondRecorded(op, key, updateData,
                        Handle(op, DB, key, updateData, NoFailure))

\* the parties and at most one registration document
InitRecorded ==
    /\ Init
    /\ DOMAIN RegistrationDoc \subseteq {1}

NextRecorded ==
    \/ Recorded("updateNaturalPerson")
    \/ Recorded("patchNaturalPerson")
    \/ Recorded("updateLegalEntity")
    \/ Recorded("patchLegalEntity")

SpecRecorded == InitRecorded /\ [][NextRecorded]_vars

\* ======================================= handler invocations and outcomes
\* One request enters its handler (pc "running"); the handler then runs to its
\* end and either sends one response or forwards one error (pc "done"), or
\* ends without either (pc "pending": the client keeps waiting).
Caller == CHOOSE c \in Clients : TRUE
AnyStatement == NoFailure..FailAfterCommit
OutcomeOps == UpdateOps \cup {"updateTransportVehicle", "getRegDocByRegNumber"}

\* the router hands the request to the handler
Invoke ==
    /\ req[Caller].pc = "idle"
    /\ \E op \in OutcomeOps :
         req' = [req EXCEPT ![Caller] = [Idle EXCEPT !.pc = "running", !.op = op]]
    /\ UNCHANGED <<Owner, NaturalPerson, LegalEntity, RegistrationDoc, last, crudVars>>

Settled(status) ==
    req' = [req EXCEPT ![Caller].pc = IF status = "noResponse" THEN "pending"
                                      ELSE "done",
                       ![Caller].status = status]

\* a party update during which any statement, the re-read after the commit
\* included, may throw
SettleParty(op) ==
    /\ req[Caller].pc = "running" /\ req[Caller].op = op
    /\ \E key \in KeysOf(op), updateData \in Payloads(FieldsOf(op)),
          fail \in AnyStatement :
         LET result == Handle(op, DB, key, updateData, fail)
         IN  /\ Served(op, key, updateData, result)
             /\ Settled(result.status)
    /\ UNCHANGED crudVars

\* vehicleController.js:327-356: the findOne after the commit throws, the
\* catch block calls rollback on the committed transaction, which throws in
\* turn, and next(e) is not reached
RereadFails(result) ==
    IF result.tx = <<"begin", "commit">>
    THEN Outcome(result.table, "noResponse", <<"begin", "commit", "rollback">>,
                 NoBody, NoQuery)
    ELSE result

SettleUpdateTransportVehicle ==
    /\ req[Caller].pc = "running" /\ req[Caller].op = "updateTransportVehicle"
    /\ \E vin \in VinInputs, body \in VehiclePayloads, rereadFails \in BOOLEAN :
         LET done   == updateTransportVehicle(TransportVehicle, vin, body)
             result == IF rereadFails THEN RereadFails(done) ELSE done
         IN  /\ TransportVehicle' = result.table
             /\ CrudRespond("updateTransportVehicle", vin, body, result)
             /\ Settled(result.status)
    /\ UNCHANGED <<Owner, NaturalPerson, LegalEntity, RegistrationDoc, last,
                   Employee, adminVars>>

\* owner/regDocController.js:69-71: the handler's body is empty
getRegDocByRegNumber(docs, regNumber) ==
    Answered(docs, "noResponse", NoBody, NoQuery)

SettleGetRegDocByRegNumber ==
    /\ req[Caller].pc = "running" /\ req[Caller].op = "getRegDocByRegNumber"
    /\ \E regNumber \in RegNumbers :
         LET result == getRegDocByRegNumber(RegistrationDoc, regNumber)
         IN  /\ CrudRespond("getRegDocByRegNumber", "",
                            [regNumber |-> regNumber], result)
             /\ Settled(result.status)
    /\ UNCHANGED <<Owner, NaturalPerson, LegalEntity, RegistrationDoc, last,
                   Employee, TransportVehicle, adminVars>>

\* the handlers run to their end once invoked
Settle ==
    \/ SettleParty("updateNaturalPerson")
    \/ SettleParty("patchNaturalPerson")
    \/ SettleParty("updateLegalEntity")
    \/ SettleParty("patchLegalEntity")
    \/ SettleUpdateTransportVehicle
    \/ SettleGetRegDocByRegNumber

\* the parties without documents and at most one vehicle
InitOutcome ==
    /\ NaturalPerson \in PartialFunctions(Passports, NaturalPersonRows)
    /\ LegalEntity \in PartialFunctions(TaxNumbers, LegalEntityRows)
    /\ RegistrationDoc = EmptyTable
    /\ Owner = RegistryOf([NaturalPerson |-> NaturalPerson,
                           LegalEntity |-> LegalEntity,
                           RegistrationDoc |-> RegistrationDoc])
    /\ last = NoRequest
    /\ req = [c \in Clients |-> Idle]
    /\ TransportVehicle \in {t \in VehicleTables : DOMAIN t \subseteq {VinPool[1]}}
    /\ Employee = EmptyTable
    /\ reply = NoReply
    /\ AdminIdle

NextOutcome ==
    \/ Invoke
    \/ Settle

SpecOutcome == InitOutcome /\ [][NextOutcome]_vars /\ WF_vars(Settle)

\* ================================================= RegDocCrudController
\* (employee/regDocCrudController.js). A document row holds the vehicle and
\* owner references; address, pts, sts and registrationDate, which the
\* schema requires and no check reads, are left out.
RegistrationNumberPool == <<"77AA000001", "77AA000002">>
RegistrationNumbers ==
    {RegistrationNumberPool[i] : i \in DOMAIN RegistrationNumberPool}
\* /^[A-Z0-9]{10}$/ and /^[A-Z0-9]{10,15}$/
OwnerPassports  == {"4510123456"}
OwnerTaxNumbers == TaxNumbers
\* a column that holds null
Null == ""

RegDocReferences == {"vin", "ownerPassport", "ownerTaxNumber"}
RegDocPayloads ==
    UNION {[registrationNumber : RegistrationNumbers, vin : Vins,
            ownerPassport : p, ownerTaxNumber : t] :
              p \in {OwnerPassports, {Null}}, t \in {OwnerTaxNumbers, {Null}}}
        \cup {[vin |-> v] : v \in Vins}

\* a key the body leaves out reads as undefined, which is falsy like null
regDocSchema(body) ==
    DOMAIN body = {"registrationNumber"} \cup RegDocReferences

\* the row RegistrationDoc.create(req.body) stores
RegDocRow(body) == [f \in RegDocReferences |-> body[f]]

\* the branch at 172-190 and 240-256: the passport when one is supplied and
\* differs from the stored one, otherwise the tax number
OwnerMissing(persons, entities, body, stored) ==
    IF body.ownerPassport # Null /\ body.ownerPassport # stored.ownerPassport
    THEN body.ownerPassport \notin DOMAIN persons
    ELSE IF body.ownerTaxNumber # Null /\ body.ownerTaxNumber # stored.ownerTaxNumber
    THEN body.ownerTaxNumber \notin DOMAIN entities
    ELSE FALSE

\* whether the table rejects a row that names a missing vehicle or owner is
\* decided by the model definitions, which the controller does not show:
\* the write either stores the row or throws
Written(docs, vehicles, persons, entities, key, row, status) ==
    LET dangling ==
            \/ row.vin \notin DOMAIN vehicles
            \/ row.ownerPassport # Null /\ row.ownerPassport \notin DOMAIN persons
            \/ row.ownerTaxNumber # Null /\ row.ownerTaxNumber \notin DOMAIN entities
    IN  {Committed(Insert(docs, key, row), status, row)}
            \cup (IF dangling THEN {Thrown(docs, "internal")} ELSE {})

createRegDoc(docs, vehicles, persons, entities, body) ==
    IF ~regDocSchema(body) THEN {Thrown(docs, "badRequest")}
    ELSE IF body.registrationNumber \in DOMAIN docs THEN {Thrown(docs, "conflict")}
    ELSE IF body.vin \notin DOMAIN vehicles THEN {Thrown(docs, "badRequest")}
    ELSE IF body.ownerPassport = Null /\ body.ownerTaxNumber = Null
         THEN {Thrown(docs, "badRequest")}
    ELSE IF OwnerMissing(persons, entities, body, [f \in RegDocReferences |-> Null])
         THEN {Thrown(docs, "badRequest")}
    ELSE Written(docs, vehicles, persons, entities, body.registrationNumber,
                 RegDocRow(body), "created")

updateRegDoc(docs, vehicles, persons, entities, id, body) ==
    IF ~regDocSchema(body) THEN {Thrown(docs, "badRequest")}
    ELSE IF id \notin DOMAIN docs THEN {Thrown(docs, "notFound")}
    ELSE IF body.registrationNumber # id THEN {Thrown(docs, "badRequest")}
    ELSE IF body.vin # docs[id].vin /\ body.vin \notin DOMAIN vehicles
         THEN {Thrown(docs, "badRequest")}
    ELSE IF OwnerMissing(persons, entities, body, docs[id])
         THEN {Thrown(docs, "badRequest")}
    ELSE Written(docs, vehicles, persons, entities, id,
                 UpdateInstance(docs[id], RegDocRow(body)), "ok")

RegDocRespond(op, key, payload, result) ==
    /\ RegistrationDoc' = result.table
    /\ CrudRespond(op, key, payload, result)
    /\ UNCHANGED <<Owner, NaturalPerson, LegalEntity, last, req, Employee,
                   TransportVehicle, adminVars>>

CreateRegDoc ==
    \E body \in RegDocPayloads :
        \E result \in createRegDoc(RegistrationDoc, TransportVehicle,
                                   NaturalPerson, LegalEntity, body) :
            RegDocRespond("createRegDoc",
                          IF "registrationNumber" \in DOMAIN body
                          THEN body.registrationNumber ELSE "", body, result)

UpdateRegDoc ==
    \E id \in RegistrationNumbers, body \in RegDocPayloads :
        \E result \in updateRegDoc(RegistrationDoc, TransportVehicle,
                                   NaturalPerson, LegalEntity, id, body) :
            RegDocRespond("updateRegDoc", id, body, result)

\* any vehicles and owners on file, no documents yet
InitRegDoc ==
    /\ TransportVehicle \in
         {t \in VehicleTables :
             \A v \in DOMAIN t : /\ t[v].chassisNumber = NoChassis
                                 /\ t[v].makeAndModel = ValuePool[1]}
    /\ NaturalPerson \in PartialFunctions(OwnerPassports,
           {[address |-> AddressPool[1], lastName |-> InitialName]})
    /\ LegalEntity \in PartialFunctions(OwnerTaxNumbers,
           {[address |-> AddressPool[1], companyName |-> InitialName]})
    /\ RegistrationDoc = EmptyTable
    /\ Owner = [a \in Addresses |->
                  IF a = AddressPool[1]
                     /\ DOMAIN NaturalPerson \cup DOMAIN LegalEntity # {}
                  THEN 1 ELSE 0]
    /\ last = NoRequest
    /\ req = [c \in Clients |-> Idle]
    /\ Employee = EmptyTable
    /\ reply = NoReply
    /\ AdminIdle

NextRegDoc ==
    \/ CreateRegDoc
    \/ UpdateRegDoc

SpecRegDoc == InitRegDoc /\ [][NextRegDoc]_vars

\* ========================================================= WorkController
\* (part_005). The table is the sequence of its rows in insertion order. A
\* workDate is a day and an hour of that day; purpose, which the schema
\* requires and no check reads, is left out.
MaxWork == 2

\* new Date(): the day the requests are served
Today    == 2
Tomorrow == Today + 1
WorkDates ==
    {[day |-> 1, hour |-> 9], [day |-> 1, hour |-> 17],
     [day |-> Today, hour |-> 9], [day |-> Tomorrow, hour |-> 9]}

\* operations on file, and one that is not
OperationIds     == {1, 2}
MissingOperation == Cardinality(OperationIds) + 1
\* employees on file, and one that is not
WorkBadges   == BadgeNumbers1
MissingBadge == BadgePool1[NumBadges + 1]

WorkFields == {"badgeNumber", "operationId", "workDate"}
WorkPayloads ==
    [badgeNumber : WorkBadges \cup {MissingBadge},
     operationId : OperationIds \cup {MissingOperation},
     workDate : WorkDates]
        \cup {[operationId |-> o] : o \in OperationIds}

workSchema(body) ==
    /\ DOMAIN body = WorkFields
    /\ BadgePattern1(body.badgeNumber)

\* workDate between setHours(0, 0, 0, 0) and setHours(23, 59, 59, 999) of
\* the body's date
SameDay(workDate, date) == workDate.day = date.day

\* new Date(workDate) > new Date()
InFuture(date) == date.day > Today

\* the where clause of createWork's duplicate lookup (107-119)
DuplicateWork(table, body) ==
    {i \in DOMAIN table :
        /\ table[i].badgeNumber = body.badgeNumber
        /\ table[i].operationId = body.operationId
        /\ SameDay(table[i].workDate, body.workDate)}

\* the where clause of updateWork's duplicate lookup (183-196): the object
\* literal names operationId twice and the second entry, {[Op.ne]: id},
\* replaces the first
DuplicateWorkExcept(table, body, id) ==
    {i \in DOMAIN table :
        /\ table[i].badgeNumber = body.badgeNumber
        /\ table[i].operationId # id
        /\ SameDay(table[i].workDate, body.workDate)}

createWork(table, operations, employees, body) ==
    IF ~workSchema(body) THEN Thrown(table, "badRequest")
    ELSE IF body.operationId \notin operations THEN Thrown(table, "badRequest")
    ELSE IF FindBy(employees, "badgeNumber", body.badgeNumber) = {}
         THEN Thrown(table, "badRequest")
    ELSE IF DuplicateWork(table, body) # {} THEN Thrown(table, "conflict")
    ELSE IF InFuture(body.workDate) THEN Thrown(table, "badRequest")
    ELSE Committed(Append(table, body), "created", body)

updateWork(table, operations, employees, id, body) ==
    IF ~workSchema(body) THEN Thrown(table, "badRequest")
    ELSE IF RowsWith(table, "operationId", id) = {} THEN Thrown(table, "notFound")
    ELSE IF body.operationId \notin operations THEN Thrown(table, "badRequest")
    ELSE IF FindBy(employees, "badgeNumber", body.badgeNumber) = {}
         THEN Thrown(table, "badRequest")
    ELSE IF DuplicateWorkExcept(table, body, id) # {} THEN Thrown(table, "conflict")
    ELSE IF InFuture(body.workDate) THEN Thrown(table, "badRequest")
    ELSE LET i == FirstOf(RowsWith(table, "operationId", id))
             work == UpdateInstance(table[i], body)
         IN  Committed([table EXCEPT ![i] = work], "ok", work)

WorkRespond(op, key, payload, result) ==
    /\ Work' = result.table
    /\ CrudRespond(op, key, payload, result)
    /\ UNCHANGED <<ownerVars, Employee, TransportVehicle, RegDepartment,
                   RegistrationOp>>

CreateWork ==
    \E body \in WorkPayloads :
        /\ Len(Work) < MaxWork
        /\ WorkRespond("createWork", 0, body,
                       createWork(Work, RegistrationOp, Employee, body))

UpdateWork ==
    \E id \in OperationIds, body \in WorkPayloads :
        WorkRespond("updateWork", id, body,
                    updateWork(Work, RegistrationOp, Employee, id, body))

\* the operations and the employees are on file, no work is recorded
InitWork ==
    /\ OwnerIdle
    /\ Employee = [b \in WorkBadges |->
                     [f \in EmployeeFields |->
                         IF f = "badgeNumber" THEN b ELSE ValuePool[1]]]
    /\ TransportVehicle = EmptyTable
    /\ reply = NoReply
    /\ RegDepartment = << >>
    /\ Work = << >>
    /\ RegistrationOp = OperationIds

NextWork ==
    \/ CreateWork
    \/ UpdateWork

SpecWork == InitWork /\ [][NextWork]_vars

\* ============================================= owner's VehicleController
\* (owner/vehicleController.js): the vehicles of the authenticated owner
\* req.user.id: a passport or a tax number
Requesters == OwnerPassports \cup OwnerTaxNumbers

\* a join that does not look at the documents' owners
MyVehiclesUnscoped(vehicles, docs, userId) ==
    [v \in {w \in DOMAIN vehicles : \E r \in DOMAIN docs : docs[r].vin = w}
        |-> vehicles[v]]

\* TransportVehicle joined with its RegistrationDoc rows, required: true,
\* where ownerPassport = userId or ownerTaxNumber = userId
MyVehicles(vehicles, docs, userId) ==
    [v \in {w \in DOMAIN vehicles :
               \E r \in DOMAIN docs :
                  /\ docs[r].vin = w
                  /\ \/ docs[r].ownerPassport = userId
                     \/ docs[r].ownerTaxNumber = userId}
        |-> vehicles[v]]

\* limit and page are read from req.query after the validation, the list is
\* ordered by makeAndModel
getMyVehicles(vehicles, docs, userId, query) ==
    LegacyList(MyVehicles(vehicles, docs, userId), "makeAndModel", "vin", FALSE,
               query,
               /\ query.limit = NoParam \/ query.limit \in 1..LegacyMaxLimit
               /\ query.page = NoParam \/ query.page >= 1,
               query.limit # NoParam /\ query.page # NoParam)

getMyVehicleById(vehicles, docs, userId, id) ==
    IF id \notin DOMAIN MyVehicles(vehicles, docs, userId)
    THEN Answered(vehicles, "notFound", NoBody, NoQuery)
    ELSE Answered(vehicles, "ok", vehicles[id], NoQuery)

OwnerVehicleRespond(op, userId, payload, result) ==
    /\ CrudRespond(op, userId, payload, result)
    /\ UNCHANGED <<ownerVars, Employee, TransportVehicle, adminVars>>

GetMyVehicles ==
    \E userId \in Requesters, query \in PageQueries :
        \E result \in getMyVehicles(TransportVehicle, RegistrationDoc, userId, query) :
            OwnerVehicleRespond("getMyVehicles", userId, query, result)

GetMyVehicleById ==
    \E userId \in Requesters, id \in Vins :
        OwnerVehicleRespond("getMyVehicleById", userId, [id |-> id],
            getMyVehicleById(TransportVehicle, RegistrationDoc, userId, id))

\* any vehicles on file, and any documents of those vehicles, each with one
\* owner or two
InitOwnerVehicle ==
    /\ TransportVehicle \in
         {t \in VehicleTables : \A v \in DOMAIN t : t[v].chassisNumber = NoChassis}
    /\ RegistrationDoc \in
         {d \in PartialFunctions(RegistrationNumbers,
                    [vin : DOMAIN TransportVehicle,
                     ownerPassport : OwnerPassports \cup {Null},
                     ownerTaxNumber : OwnerTaxNumbers \cup {Null}]) :
             \A r \in DOMAIN d :
                 d[r].ownerPassport # Null \/ d[r].ownerTaxNumber # Null}
    /\ NaturalPerson = EmptyTable
    /\ LegalEntity = EmptyTable
    /\ Owner = [a \in Addresses |-> 0]
    /\ last = NoRequest
    /\ req = [c \in Clients |-> Idle]
    /\ Employee = EmptyTable
    /\ reply = NoReply
    /\ AdminIdle

NextOwnerVehicle ==
    \/ GetMyVehicles
    \/ GetMyVehicleById

SpecOwnerVehicle == InitOwnerVehicle /\ [][NextOwnerVehicle]_vars

\* ====================================== employee's OwnerController
\* (employee/ownerController.js): the parties as the registry's staff
\* edit them
PartyPassportPool  == <<"4510123456", "4510654321">>
PartyPassports     == {PartyPassportPool[i] : i \in DOMAIN PartyPassportPool}
PartyTaxNumberPool == <<"7700000001", "7700000002">>
PartyTaxNumbers    == {PartyTaxNumberPool[i] : i \in DOMAIN PartyTaxNumberPool}
MalformedTaxNumber == "77"

\* req.body of the two PUT handlers
PartyPayloads(keyColumn, keys, nameColumn) ==
    LET columns == {keyColumn, "address", nameColumn}
        values(f) == IF f = keyColumn THEN keys
                     ELSE IF f = "address" THEN {AddressPool[1], AddressPool[2], NoAddress}
                     ELSE Names
        whole == {b \in [columns -> UNION {values(f) : f \in columns}] :
                     \A f \in columns : b[f] \in values(f)}
    IN  whole \cup {[f \in columns \ {g} |-> b[f]] : b \in whole, g \in {nameColumn}}

NaturalPersonPayloads ==
    PartyPayloads("passportData", PartyPassports \cup {MalformedPassport}, "lastName")
LegalEntityPayloads ==
    PartyPayloads("taxNumber", PartyTaxNumbers \cup {MalformedTaxNumber}, "companyName")

\* every column required; passportData ten characters of A-Z0-9, address
\* five characters or more
naturalPersonSchema(body) ==
    /\ DOMAIN body = {"passportData", "address", "lastName"}
    /\ body.passportData \in PartyPassports
    /\ body.address \in Addresses
    /\ body.lastName \in Names

legalEntitySchema(body) ==
    /\ DOMAIN body = {"taxNumber", "address", "companyName"}
    /\ body.taxNumber \in PartyTaxNumbers
    /\ body.address \in Addresses
    /\ body.companyName \in Names

\* an update that saves every column of the payload
EveryPayloadColumn == {"address", "lastName", "companyName"}

\* fields: ['address']
OwnerUpdateFields == {"address"}

\* instance.update(values, { fields }): the columns of fields that the
\* payload carries are set and saved, the others keep their values
UpdateRow(row, values, fields) ==
    [f \in DOMAIN row |->
        IF f \in fields /\ f \in DOMAIN values THEN values[f] ELSE row[f]]

\* RegistrationDoc.findOne({ where: { [column]: id } })
hasRegDocs(docs, column, id) ==
    \E r \in DOMAIN docs : docs[r][column] = id

\* the body of both handlers: schema, key of the body against the key of
\* the path, the row, the restricted columns of a party with documents (the
\* key column of the body equals the row's by then), the update
OwnerController_update(table, docs, id, body, valid, keyColumn, ownerColumn, restricted) ==
    IF ~valid THEN Thrown(table, "badRequest")
    ELSE IF body[keyColumn] # id THEN Thrown(table, "badRequest")
    ELSE IF id \notin DOMAIN table THEN Thrown(table, "notFound")
    ELSE IF /\ hasRegDocs(docs, ownerColumn, id)
            /\ \E field \in restricted : body[field] # table[id][field]
         THEN Thrown(table, "badRequest")
    ELSE LET row == UpdateRow(table[id], body, OwnerUpdateFields)
         IN  Committed([table EXCEPT ![id] = row], "ok", row)

OwnerController_updateNaturalPerson(persons, docs, id, body) ==
    OwnerController_update(persons, docs, id, body, naturalPersonSchema(body),
                           "passportData", "ownerPassport", {"lastName"})

updateLegalEntities(entities, docs, id, body) ==
    OwnerController_update(entities, docs, id, body, legalEntitySchema(body),
                           "taxNumber", "ownerTaxNumber", {"companyName"})

EmployeeUpdateNaturalPerson ==
    \E id \in PartyPassports, body \in NaturalPersonPayloads :
        LET result == OwnerController_updateNaturalPerson(NaturalPerson,
                          RegistrationDoc, id, body)
        IN  /\ NaturalPerson' = result.table
            /\ CrudRespond("OwnerController.updateNaturalPerson", id, body, result)
            /\ UNCHANGED <<Owner, LegalEntity, RegistrationDoc, last, req,
                           Employee, TransportVehicle, adminVars>>

EmployeeUpdateLegalEntities ==
    \E id \in PartyTaxNumbers, body \in LegalEntityPayloads :
        LET result == updateLegalEntities(LegalEntity, RegistrationDoc, id, body)
        IN  /\ LegalEntity' = result.table
            /\ CrudRespond("OwnerController.updateLegalEntities", id, body, result)
            /\ UNCHANGED <<Owner, NaturalPerson, RegistrationDoc, last, req,
                           Employee, TransportVehicle, adminVars>>

\* at most one party of each kind on file, at most one document, of one
\* party or two
InitEmployeeOwner ==
    /\ NaturalPerson \in PartialFunctions({PartyPassportPool[1]},
           [address : {AddressPool[1]}, lastName : Names])
    /\ LegalEntity \in PartialFunctions({PartyTaxNumberPool[1]},
           [address : {AddressPool[1]}, companyName : Names])
    /\ RegistrationDoc \in PartialFunctions({RegistrationNumberPool[1]},
           [vin : {VinPool[1]},
            ownerPassport : DOMAIN NaturalPerson \cup {Null},
            ownerTaxNumber : DOMAIN LegalEntity \cup {Null}])
    /\ TransportVehicle = EmptyTable
    /\ Owner = [a \in Addresses |-> 0]
    /\ last = NoRequest
    /\ req = [c \in Clients |-> Idle]
    /\ Employee = EmptyTable
    /\ reply = NoReply
    /\ AdminIdle

NextEmployeeOwner ==
    \/ EmployeeUpdateNaturalPerson
    \/ EmployeeUpdateLegalEntities

SpecEmployeeOwner == InitEmployeeOwner /\ [][NextEmployeeOwner]_vars

\* ================================================================= claims
Tables == <<Owner, NaturalPerson, LegalEntity, RegistrationDoc>>

\* the last request succeeded and carried an address
Succeeded(l) == l.op \in UpdateOps /\ l.status = "ok"
\* ... that differs from the address the party had
AddressChanged(l) ==
    Succeeded(l) /\ l.address # NoAddress /\ l.address # l.oldAddress
\* ... or carried the party's current address, or none
AddressKept(l) ==
    Succeeded(l) /\ (l.address = NoAddress \/ l.address = l.oldAddress)

DocsOf(key) ==
    {r \in DOMAIN RegistrationDoc : RegistrationDoc[r].documentOwner = key}

\* C1: after every sequence of party updates from a consistent registry, each
\* address has exactly one Owner row if some NaturalPerson, LegalEntity or
\* RegistrationDoc row holds it, and no Owner row otherwise.
C1_RegistryInvariant ==
    \A a \in Addresses : Owner[a] = IF LinkedCount(DB, a) > 0 THEN 1 ELSE 0

\* C2: after every successful address change of a party, with or without
\* registration documents, an Owner row for the new address exists.
C2_NewOwnerExists ==
    AddressChanged(last) => Owner[last.address] > 0

\* one step of a request, for C3_OldOwnerCollected
C3_OldOwnerStep ==
    AddressChanged(last') =>
        LET oldAddress == last'.oldAddress IN
        /\ LinkedCount(DB', oldAddress) = 0 => Owner'[oldAddress] = 0
        /\ LinkedCount(DB', oldAddress) > 0 => Owner'[oldAddress] = Owner[oldAddress]

C4_OwnDocsRewritten ==
    AddressChanged(last) =>
        \A r \in DocsOf(last.key) : RegistrationDoc[r].address = last.address

\* one step of a request, for C5_ForeignDocsUntouched
C5_ForeignDocsStep ==
    AddressChanged(last') =>
        /\ DOMAIN RegistrationDoc' = DOMAIN RegistrationDoc
        /\ \A r \in DOMAIN RegistrationDoc :
              RegistrationDoc[r].documentOwner # last'.key
                 => RegistrationDoc'[r] = RegistrationDoc[r]

\* C5: an address change of party K modifies no RegistrationDoc whose
\* documentOwner differs from K.
C5_ForeignDocsUntouched == [][C5_ForeignDocsStep]_vars

C5_Witness ==
    /\ AddressChanged(last)
    /\ \E r \in DOMAIN RegistrationDoc :
          /\ RegistrationDoc[r].documentOwner # last.key
          /\ RegistrationDoc[r].address = last.oldAddress
    /\ \E r \in DocsOf(last.key) : RegistrationDoc[r].address = last.address

\* one step of a request, for C6_NoReconciliation
C6_NoReconciliationStep ==
    AddressKept(last') =>
        /\ Owner' = Owner
        /\ RegistrationDoc' = RegistrationDoc
        /\ \A k \in DOMAIN NaturalPerson :
              /\ NaturalPerson'[k].address = NaturalPerson[k].address
              /\ k # last'.key => NaturalPerson'[k] = NaturalPerson[k]
        /\ \A k \in DOMAIN LegalEntity :
              /\ LegalEntity'[k].address = LegalEntity[k].address
              /\ k # last'.key => LegalEntity'[k] = LegalEntity[k]

\* C6: a successful update that carries the party's current address, or a
\* partial update without address, changes neither the Owner table nor any
\* RegistrationDoc row.
C6_NoReconciliation == [][C6_NoReconciliationStep]_vars

\* one step of a request, for C7_Atomic
C7_AtomicStep ==
    (last'.status = "internal" /\ last'.writes >= 1) => Tables' = Tables

\* C7: when a step of a party address update fails after the first write,
\* the Owner, NaturalPerson, LegalEntity and RegistrationDoc tables are as
\* they were before the request.
C7_Atomic == [][C7_AtomicStep]_vars

C7_Witness ==
    /\ last.status = "internal"
    /\ last.writes >= 3
    /\ last.address # NoAddress
    /\ last.address # last.oldAddress
    /\ Owner[last.address] = 0

\* C8: an address-change request applied twice in sequence to the same
\* party leaves at most one Owner row for the new address, and the tables
\* after the second application equal the tables after the first.
C8_Idempotent ==
    \A op \in UpdateOps : \A key \in KeysOf(op) :
      \A updateData \in Payloads(FieldsOf(op)) :
        LET first  == Handle(op, DB, key, updateData, NoFailure)
            second == Handle(op, first.db, key, updateData, NoFailure)
        IN  (first.status = "ok" /\ "address" \in DOMAIN updateData) =>
                /\ second.db = first.db
                /\ second.db.Owner[updateData.address] <= 1

\* the state after an address-change request was applied a second time
C8_Witness ==
    /\ last.repeat
    /\ last.address = last.oldAddress
    /\ Owner[last.address] = 1
    /\ DocsOf(last.key) # {}

\* C9: when two concurrent address updates that target the same new address
\* have both committed, at most one Owner row holds that address.
C9_NoDuplicateOwner ==
    (/\ \A c \in Clients : req[c].pc = "done" /\ req[c].status = "ok"
     /\ \A c, d \in Clients : NewAddress(c) = NewAddress(d))
        => \A c \in Clients : Owner[NewAddress(c)] <= 1

\* C10: every error detected after the transaction was opened is forwarded
\* only after the transaction was rolled back.
C10_ErrorsRolledBack ==
    last.status \in {"badRequest", "notFound", "internal"} => last.tx = <<"rollback">>

\* ============================================ claims, generic controllers
\* the handlers that create or update a row
WriteOps == {"createEmployee", "updateEmployee", "patchEmployee"}

\* C11: a create or update request whose payload fails schema validation is
\* answered with BadRequest and no transaction was begun for it.
C11_ValidationBeforeTransaction ==
    (reply.op \in WriteOps /\ reply.status = "badRequest") => reply.tx = << >>

VehicleWriteOps == {"updateTransportVehicle", "patchTransportVehicle"}

\* the chassis number a well-formed update or patch asks the row to take
RequestedChassis(op, vin, body) ==
    IF op = "patchTransportVehicle" /\ "hasChassisNumber" \notin DOMAIN body
    THEN TransportVehicle[vin].chassisNumber
    ELSE ChassisFromFlag(body, vin)

C12_ChassisStep ==
    (/\ reply'.op \in VehicleWriteOps
     /\ reply'.key \in DOMAIN TransportVehicle
     /\ HasRegDocs(RegistrationDoc, reply'.key)
     /\ RequestedChassis(reply'.op, reply'.key, reply'.payload)
           # TransportVehicle[reply'.key].chassisNumber)
    => /\ reply'.status = "badRequest"
       /\ TransportVehicle'[reply'.key] = TransportVehicle[reply'.key]

\* C12: an update or patch that would give a vehicle referenced by a
\* RegistrationDoc another chassisNumber than the stored one is answered
\* BadRequest and leaves the vehicle row as it was.
C12_ChassisImmutable == [][C12_ChassisStep]_vars

C13_IdentityStep ==
    /\ \A k \in DOMAIN NaturalPerson :
          (last'.op \in NaturalPersonOps /\ last'.key = k /\ DocsOf(k) # {}) =>
              NaturalPerson'[k].lastName = NaturalPerson[k].lastName
    /\ \A k \in DOMAIN LegalEntity :
          (last'.op \in UpdateOps \ NaturalPersonOps /\ last'.key = k /\ DocsOf(k) # {}) =>
              LegalEntity'[k].companyName = LegalEntity[k].companyName

\* C13: once a party owns a RegistrationDoc, no update of the party changes
\* its identity fields (the name columns of a natural person, companyName of
\* a legal entity): such a request is refused and the row keeps them.
C13_IdentityImmutable == [][C13_IdentityStep]_vars

UpdateAndPatchOps == {"updateEmployee", "patchEmployee"}

C14_KeyStep ==
    (reply'.op \in UpdateAndPatchOps /\ reply'.status = "ok") =>
        /\ reply'.key \in DOMAIN Employee'
        /\ Employee'[reply'.key].badgeNumber = reply'.key

C15_DuplicateBadgeStep ==
    (/\ reply'.op = "createEmployee"
     /\ employeeSchema(reply'.payload)
     /\ FindBy(Employee, "badgeNumber", reply'.payload.badgeNumber) # {})
    => /\ reply'.status = "conflict"
       /\ Employee' = Employee
       /\ reply'.tx = <<"begin", "rollback">>

\* C15: createEmployee with a well-formed payload whose badge number an
\* existing Employee row already has answers Conflict, leaves the Employee
\* table as it was and rolls its transaction back.
C15_DuplicateBadgeConflict == [][C15_DuplicateBadgeStep]_vars

\* a create was refused for a badge number that is in the table
C15_Witness ==
    /\ reply.op = "createEmployee" /\ reply.status = "conflict"
    /\ reply.payload.badgeNumber \in DOMAIN Employee
    /\ reply.tx = <<"begin", "rollback">>

\* the list request names a sort field or a sort order the handler does not
\* allow
BadSort(query) ==
    \/ query.sortBy \notin VehicleSortFields \cup VehicleSortFields1 \cup {NoSort}
    \/ query.sortOrder \notin {NoSort, "ASC", "DESC"}

\* C16: a vehicle list request with a sortBy outside the allow-list or a
\* sortOrder other than ASC/DESC is answered with BadRequest and issues no
\* database query.
C16_BadSortRejected ==
    (reply.op = "getAllTransportVehicle" /\ BadSort(reply.payload)) =>
        reply.status = "badRequest" /\ reply.listQuery = NoQuery

ListOps == {"getAllNaturalPersons", "getAllLegalEntities", "getAllEmployees",
            "getAllTransportVehicle"}

\* the default page size of the handler that served the request
DefaultLimitOf(op) ==
    CASE op = "getAllEmployees" -> EmployeeDefaultLimit
      [] op = "getAllTransportVehicle" -> VehicleDefaultLimit
      [] OTHER -> OwnerDefaultLimit

\* C17: every list query that reaches the database has page >= 1,
\* 1 <= limit <= the upper bound and offset = (page - 1) * limit, and a
\* request without limit is queried with the default page size.
C17_Pagination ==
    (reply.op \in ListOps /\ reply.listQuery # NoQuery) =>
        LET q == reply.listQuery
        IN  /\ q.page >= 1
            /\ q.limit >= 1 /\ q.limit <= LegacyMaxLimit
            /\ q.offset = (q.page - 1) * q.limit
            /\ reply.payload.limit = NoParam => q.limit = DefaultLimitOf(reply.op)
            /\ reply.payload.page = NoParam => q.page = DefaultPage

CreatedNow(r, b) ==
    r.op = "createEmployee" /\ r.status = "created" /\ r.payload.badgeNumber = b
DeletedNow(r, b) ==
    r.op = "deleteEmployee" /\ r.status = "noContent" /\ r.key = b
LookedUp(r, b) ==
    /\ r.op = "getEmployeeByField"
    /\ DOMAIN r.payload = {"badgeNumber"} /\ r.payload.badgeNumber = b
DefaultList(r) ==
    /\ r.op = "getAllEmployees"
    /\ r.payload.limit = NoParam /\ r.payload.page = NoParam

Elements(seq) == {seq[i] : i \in DOMAIN seq}

C18_LifecycleStep ==
    \A b \in BadgeNumbers :
        /\ CreatedNow(reply', b) => b \in DOMAIN Employee'
        /\ DeletedNow(reply', b) => b \notin DOMAIN Employee'
        /\ (b \in DOMAIN Employee /\ ~DeletedNow(reply', b)) => b \in DOMAIN Employee'
        /\ (b \notin DOMAIN Employee /\ ~CreatedNow(reply', b)) => b \notin DOMAIN Employee'
        /\ LookedUp(reply', b) =>
              IF b \in DOMAIN Employee
              THEN reply'.status = "ok" /\ reply'.body = Employee[b]
                     /\ reply'.body.badgeNumber = b
              ELSE reply'.status = "notFound"
        /\ (DefaultList(reply') /\ reply'.status = "ok" /\ b \in DOMAIN Employee) =>
              b \in Elements(reply'.body.data)

\* C18: an employee is in the table from the successful createEmployee of
\* its badge number until the successful deleteEmployee of it, whatever
\* updates and patches come between; while it is there a lookup by its badge
\* number answers 200 with it and the list holds it, and while it is not the
\* lookup answers 404.
C18_Lifecycle == [][C18_LifecycleStep]_vars

\* an employee was created and has now been deleted
C18_Witness ==
    /\ reply.op = "deleteEmployee" /\ reply.status = "noContent"
    /\ reply.key \notin DOMAIN Employee

C19_PatchStep ==
    (reply'.op = "patchEmployee" /\ reply'.status = "ok") =>
        LET k == reply'.key
            body == reply'.payload
        IN  /\ DOMAIN Employee' = DOMAIN Employee
            /\ \A j \in DOMAIN Employee \ {k} : Employee'[j] = Employee[j]
            /\ \A f \in EmployeeFields :
                  Employee'[k][f] = IF f \in DOMAIN body THEN body[f]
                                    ELSE Employee[k][f]

\* C19: a successful patchEmployee sets the columns present in the payload
\* to the payload's values and changes no other column of that employee and
\* no other Employee row.
C19_PatchFrame == [][C19_PatchStep]_vars

\* a patch of rank alone succeeded on an employee whose other columns hold
\* the second value, with another employee in the table
C19_Witness ==
    /\ reply.op = "patchEmployee" /\ reply.status = "ok"
    /\ DOMAIN reply.payload = {"rank"}
    /\ Employee[reply.key].rank = reply.payload.rank
    /\ Employee[reply.key].lastName = ValuePool[2]
    /\ DOMAIN Employee # {reply.key}

\* C20: after a successful updateEmployee every column of the employee
\* holds the payload's value and the response body carries those values.
C20_PutSetsAll ==
    (reply.op = "updateEmployee" /\ reply.status = "ok") =>
        \A f \in EmployeeColumns :
            /\ Employee[reply.key][f] = reply.payload[f]
            /\ reply.body[f] = reply.payload[f]

\* a full update succeeded with the second value in every column
C20_Witness ==
    /\ reply.op = "updateEmployee" /\ reply.status = "ok"
    /\ \A f \in EmployeeColumns : reply.payload[f] = ValuePool[2]
    /\ reply.body.badgeNumber = reply.key

\* C21: an update, patch or delete whose payload passes validation and whose
\* key has no row answers NotFound and leaves the table as it was; a delete
\* that answers 204 removes the addressed row and leaves every other row as
\* it was.
AcceptedBody(op, body) ==
    CASE op = "updateEmployee" -> employeePutSchema(body)
      [] op = "patchEmployee"  -> employeePatchSchema(body)
      [] OTHER                 -> TRUE

C21_MissingKeyStep ==
    reply'.op \in UpdateAndPatchOps \cup {"deleteEmployee"} =>
        /\ (reply'.key \notin DOMAIN Employee
              /\ AcceptedBody(reply'.op, reply'.payload))
           => (reply'.status = "notFound" /\ Employee' = Employee)
        /\ reply'.status = "notFound" => Employee' = Employee
        /\ (reply'.op = "deleteEmployee" /\ reply'.status = "noContent")
           => /\ reply'.key \in DOMAIN Employee
              /\ DOMAIN Employee' = DOMAIN Employee \ {reply'.key}
              /\ \A k \in DOMAIN Employee' : Employee'[k] = Employee[k]

C21_MissingKey == [][C21_MissingKeyStep]_vars

\* a patch of a missing badge number was refused while another employee
\* was on file
C21_Witness ==
    /\ reply.op = "patchEmployee"
    /\ reply.status = "notFound"
    /\ reply.key \notin DOMAIN Employee
    /\ Employee # EmptyTable

\* no two department rows share a unitCode, no two share an email
UniqueIn(table, column) ==
    \A i, j \in DOMAIN table : table[i][column] = table[j][column] => i = j

\* the rows other than the one a request addresses
OtherRows(table, op, key) ==
    IF op = "createRegDepart" THEN DOMAIN table
    ELSE DOMAIN table \ RowsWith(table, "unitCode", key)

C22_UniqueStep ==
    /\ UniqueIn(RegDepartment', "unitCode")
    /\ UniqueIn(RegDepartment', "email")
    /\ (/\ reply'.op \in {"createRegDepart", "updateRegDepart"}
        /\ regDepartSchema(reply'.payload)
        /\ reply'.op = "updateRegDepart"
              => RowsWith(RegDepartment, "unitCode", reply'.key) # {}
        /\ \E i \in OtherRows(RegDepartment, reply'.op, reply'.key) :
              \/ RegDepartment[i].unitCode = reply'.payload.unitCode
              \/ RegDepartment[i].email = reply'.payload.email)
       => (reply'.status = "conflict" /\ RegDepartment' = RegDepartment)

\* C22: after any sequence of createRegDepart, updateRegDepart and
\* deleteRegDepart requests served one after another, no two department rows
\* share a unitCode and no two share an email; a create, or an update of a
\* department on file, whose valid body carries the unitCode or the email
\* of another department answers Conflict and leaves the table as it was.
C22_UniqueDepartments == [][C22_UniqueStep]_vars

\* an update was refused as a conflict while two departments were on file
C22_Witness ==
    /\ reply.op = "updateRegDepart"
    /\ reply.status = "conflict"
    /\ Len(RegDepartment) = 2

PartyRow(op, key) ==
    IF op \in NaturalPersonOps THEN NaturalPerson[key] ELSE LegalEntity[key]

\* C23: after a successful party update every field the payload supplies
\* (name fields, companyName, address) has the payload's value on the
\* party's row, a PATCH of a legal entity with address and companyName
\* included.
C23_PayloadApplied ==
    (reply.op \in UpdateOps /\ reply.status = "ok") =>
        \A f \in DOMAIN reply.payload :
            PartyRow(reply.op, reply.key)[f] = reply.payload[f]

\* transaction c committed a move of its party away from address a
MovedAway(c, a) ==
    /\ req[c].pc = "done" /\ req[c].status = "ok"
    /\ req[c].oldAddress = a /\ NewAddress(c) # a

\* transaction c committed a move of its party to address a, and its handler
\* ran the Owner find-or-create for a
MovedTo(c, a) ==
    /\ req[c].pc = "done" /\ req[c].status = "ok"
    /\ req[c].oldAddress # a /\ NewAddress(c) = a
    /\ req[c].ownerFound \/ req[c].created

\* C24: for any interleaving of two concurrent address updates, one moving
\* a party away from address A and the other moving a party to A, an Owner
\* row for A exists after both have committed.
C24_OwnerSurvivesRace ==
    \A c \in Clients : \A a \in Addresses :
        (MovedAway(c, a) /\ MovedTo(Other(c), a)) => Owner[a] > 0

Outcomes == {"ok", "badRequest", "notFound", "conflict", "internal"}

\* C25: every handler invocation eventually produces one outcome, a response
\* sent or an error forwarded, on every path: the path where a query fails
\* after the commit and the owner route GET /reg-docs/:regNumber included.
C25_EventuallyOneOutcome ==
    (req[Caller].pc = "running")
        ~> (req[Caller].pc = "done" /\ req[Caller].status \in Outcomes)

Invoked(tx, call) == \E i \in DOMAIN tx : tx[i] = call

\* C26: a transaction a handler opens is finished once: commit and rollback
\* are never both invoked on it, and rollback is never invoked after commit.
C26_FinishedOnce ==
    /\ ~(Invoked(last.tx, "commit") /\ Invoked(last.tx, "rollback"))
    /\ ~(Invoked(reply.tx, "commit") /\ Invoked(reply.tx, "rollback"))

RegDocWriteOps == {"createRegDoc", "updateRegDoc"}

\* the references of a stored document point at rows on file
References(doc) ==
    /\ doc.vin \in DOMAIN TransportVehicle
    /\ doc.ownerPassport # Null => doc.ownerPassport \in DOMAIN NaturalPerson
    /\ doc.ownerTaxNumber # Null => doc.ownerTaxNumber \in DOMAIN LegalEntity

\* the valid body of a request names a vehicle or an owner that is not on
\* file
NamesMissing(body) ==
    \/ body.vin \notin DOMAIN TransportVehicle
    \/ body.ownerPassport # Null /\ body.ownerPassport \notin DOMAIN NaturalPerson
    \/ body.ownerTaxNumber # Null /\ body.ownerTaxNumber \notin DOMAIN LegalEntity

C27_ReferencesStep ==
    reply'.op \in RegDocWriteOps =>
        /\ reply'.status \in {"created", "ok"}
              => References(RegistrationDoc'[reply'.key])
        /\ (/\ regDocSchema(reply'.payload)
            /\ reply'.payload.registrationNumber = reply'.key
            /\ reply'.op = "createRegDoc" => reply'.key \notin DOMAIN RegistrationDoc
            /\ reply'.op = "updateRegDoc" => reply'.key \in DOMAIN RegistrationDoc
            /\ NamesMissing(reply'.payload))
           => (reply'.status = "badRequest" /\ RegistrationDoc' = RegistrationDoc)

\* C27: a document written by a successful createRegDoc or updateRegDoc
\* references a vehicle on file and, for each owner identifier it stores
\* (ownerPassport and ownerTaxNumber, both when both are supplied), a
\* natural person or legal entity on file; a request that names a missing
\* vehicle or owner answers BadRequest and writes nothing.
C27_ReferencesExist == [][C27_ReferencesStep]_vars

\* the record updateWork addresses: the first with operationId = id
Addressed(table, id) == FirstOf(RowsWith(table, "operationId", id))

\* a record other than the addressed one has the payload's badge number,
\* operation and calendar day
OtherHolds(table, id, body) ==
    DuplicateWork(table, body) \ {Addressed(table, id)} # {}

\* no two work records share badge number, operation and day
UniqueWork(table) ==
    \A i, j \in DOMAIN table :
        (/\ table[i].badgeNumber = table[j].badgeNumber
         /\ table[i].operationId = table[j].operationId
         /\ SameDay(table[i].workDate, table[j].workDate)) => i = j

C28_UpdateWorkStep ==
    /\ UniqueWork(Work')
    /\ (/\ reply'.op = "updateWork"
        /\ workSchema(reply'.payload)
        /\ RowsWith(Work, "operationId", reply'.key) # {}
        /\ reply'.payload.operationId \in RegistrationOp
        /\ reply'.payload.badgeNumber \in DOMAIN Employee
        /\ ~InFuture(reply'.payload.workDate))
       => IF OtherHolds(Work, reply'.key, reply'.payload)
          THEN reply'.status = "conflict"
          ELSE reply'.status = "ok"

\* C28: updateWork answers Conflict exactly when a Work record other than
\* the one being updated has the payload's badgeNumber, operationId and
\* calendar day, and otherwise (operation and employee on file, date not in
\* the future) succeeds, so that no two Work records share badge number,
\* operation and day.
C28_UpdateWorkConflict == [][C28_UpdateWorkStep]_vars

OwnerReadOps == {"getMyVehicles", "getMyVehicleById"}

\* some document of the vehicle names the requester as its owner
OwnedBy(vin, userId) ==
    \E r \in DOMAIN RegistrationDoc :
        /\ RegistrationDoc[r].vin = vin
        /\ userId \in {RegistrationDoc[r].ownerPassport,
                       RegistrationDoc[r].ownerTaxNumber}

\* the requester's part of the database: their documents and the vehicles
\* of those documents
OwnDocs(userId) ==
    [r \in {q \in DOMAIN RegistrationDoc :
               userId \in {RegistrationDoc[q].ownerPassport,
                           RegistrationDoc[q].ownerTaxNumber}}
        |-> RegistrationDoc[r]]
OwnVehicles(userId) ==
    [v \in {w \in DOMAIN TransportVehicle : OwnedBy(w, userId)}
        |-> TransportVehicle[v]]

\* the vehicles a response returns
Returned(r) ==
    IF r.status # "ok" THEN {}
    ELSE IF r.op = "getMyVehicleById" THEN {r.body.vin}
    ELSE {r.body.data[i] : i \in DOMAIN r.body.data}

\* what the client receives
Received(result) ==
    [status |-> result.status, body |-> result.body]

\* C29: getMyVehicles and getMyVehicleById return a vehicle only if some
\* RegistrationDoc of that vehicle has ownerPassport or ownerTaxNumber equal
\* to the requester's id; for any other vehicle getMyVehicleById answers
\* NotFound; and the response is the one the requester's own documents and
\* vehicles alone would give, so that states which differ only in other
\* owners' vehicles give the requester the same responses.
C29_OwnerScopedReads ==
    reply.op \in OwnerReadOps =>
        /\ \A vin \in Returned(reply) : OwnedBy(vin, reply.key)
        /\ reply.op = "getMyVehicleById" =>
              /\ ~OwnedBy(reply.payload.id, reply.key) => reply.status = "notFound"
              /\ Received(reply) =
                    Received(getMyVehicleById(OwnVehicles(reply.key),
                                 OwnDocs(reply.key), reply.key, reply.payload.id))
        /\ reply.op = "getMyVehicles" =>
              Received(reply) \in
                 {Received(result) :
                     result \in getMyVehicles(OwnVehicles(reply.key),
                                    OwnDocs(reply.key), reply.key, reply.payload)}

\* the requester read their vehicles while another owner's vehicle was on
\* file, and was refused that vehicle
C29_Witness ==
    /\ reply.op = "getMyVehicleById"
    /\ reply.status = "notFound"
    /\ reply.payload.id \in DOMAIN TransportVehicle
    /\ \E r \in DOMAIN RegistrationDoc : RegistrationDoc[r].vin = reply.payload.id
    /\ \E vin \in DOMAIN TransportVehicle : OwnedBy(vin, reply.key)

EmployeeOwnerOps == {"OwnerController.updateNaturalPerson",
                     "OwnerController.updateLegalEntities"}

\* the parties on file are the same, and every column of every row but
\* address holds what it held
OnlyAddressWritten(before, after) ==
    /\ DOMAIN after = DOMAIN before
    /\ \A k \in DOMAIN before :
          \A f \in DOMAIN before[k] \ {"address"} : after[k][f] = before[k][f]

C30_OnlyAddressStep ==
    (reply'.op \in EmployeeOwnerOps /\ reply'.status = "ok") =>
        /\ OnlyAddressWritten(NaturalPerson, NaturalPerson')
        /\ OnlyAddressWritten(LegalEntity, LegalEntity')

\* C30: the employee-side updateNaturalPerson and updateLegalEntities write
\* no column other than address: after a successful call the passport or
\* tax number, the name columns and companyName of every party are what they
\* were, also when the payload carries other values and the party has no
\* registration documents.
C30_OnlyAddress == [][C30_OnlyAddressStep]_vars

\* a successful update of a party without documents whose payload carried
\* another name and another address: the address was written, the name kept
C30_Witness ==
    /\ reply.op = "OwnerController.updateNaturalPerson"
    /\ reply.status = "ok"
    /\ reply.key \in DOMAIN NaturalPerson
    /\ ~hasRegDocs(RegistrationDoc, "ownerPassport", reply.key)
    /\ reply.payload.lastName # NaturalPerson[reply.key].lastName
    /\ reply.payload.address = NaturalPerson[reply.key].address
    /\ reply.payload.address # AddressPool[1]

====
